---- MODULE Spec2Model ----
(***************************************************************************)
(* A model of the kataras/blocks view engine: the concurrent file          *)
(* collector (readFiles), the classification and composition done by       *)
(* Blocks.load, the lock discipline of LoadWithContext and the lookups of   *)
(* ExecuteTemplate / TemplateString.                                        *)
(*                                                                          *)
(* Names and paths are TLA+ strings handled with the same prefix/suffix    *)
(* operations the Go code uses.  A file's text is a sequence of tokens:    *)
(*   "WS"  white space; any token not listed here is literal text          *)
(*   "Y"   {{ yield . }}             "TC"  {{ template "content" . }}      *)
(*   "DEF" {{ define "x" }}          "DEFC" {{define "content"}}           *)
(*   "END" {{end}}                   "BAD" a malformed action              *)
(*   "CO"  <!--                      "CC"  -->                             *)
(*   "PO" / "PC"  the <p> ... </p> markup produced by the markdown parser  *)
(*   "YT"  {{- yield . -}}           "YA"  {{ yield .Arg }}                *)
(*   "TCA" {{ template "content" .Arg }}     "D"  {{ . }}                  *)
(*   "P:n" {{ partial "n" . }}       "F:f" {{ f }}, a call of function f   *)
(* These are the directives as written with the delimiters {{ and }}; the  *)
(* same directive written with [[ and ]] is the token with "[" in front    *)
(* ("[Y" is [[ yield . ]], "[DEFC" is [[define "content"]]).               *)
(***************************************************************************)
EXTENDS Integers, Sequences, FiniteSets, TLC

(***************************************************************************)
(* Bounds of the model.                                                    *)
(***************************************************************************)
\* the largest number of files a source holds in Spec
MaxFiles == 4

\* the largest number of files (worker goroutines) a source holds in SpecRead
MaxWorkers == 3

(***************************************************************************)
(* strings.HasPrefix / HasSuffix / TrimPrefix / TrimSuffix and path.Ext.   *)
(***************************************************************************)
HasPrefix(s, p) == Len(s) >= Len(p) /\ SubSeq(s, 1, Len(p)) = p

HasSuffix(s, p) == Len(s) >= Len(p) /\ SubSeq(s, Len(s) - Len(p) + 1, Len(s)) = p

TrimPrefix(s, p) == IF HasPrefix(s, p) THEN SubSeq(s, Len(p) + 1, Len(s)) ELSE s

TrimSuffix(s, p) == IF HasSuffix(s, p) THEN SubSeq(s, 1, Len(s) - Len(p)) ELSE s

RECURSIVE ExtFrom(_, _)
ExtFrom(s, i) ==
    IF i = 0 THEN ""
    ELSE IF SubSeq(s, i, i) = "/" THEN ""
    ELSE IF SubSeq(s, i, i) = "." THEN SubSeq(s, i, Len(s))
    ELSE ExtFrom(s, i - 1)

pathExt(name) == ExtFrom(name, Len(name))

(***************************************************************************)
(* withSuffix, relDir, trimDir and makeLayoutTemplateName of blocks.go.    *)
(***************************************************************************)
withSuffix(s, suf) ==
    IF Len(s) = 0 THEN ""
    ELSE IF ~HasSuffix(s, suf) THEN s \o suf ELSE s

relDir(dir) ==
    IF dir = "." THEN ""
    ELSE IF dir = "" \/ dir = "/" THEN ""
    ELSE TrimPrefix(TrimPrefix(dir, "."), "/")

trimDir(s, dir) ==
    IF dir = "" THEN s ELSE TrimPrefix(s, withSuffix(relDir(dir), "/"))

makeLayoutTemplateNameSwapped(tmplName, layoutName) == tmplName \o layoutName

makeLayoutTemplateName(tmplName, layoutName) == layoutName \o tmplName

(***************************************************************************)
(* Text operations: comment removal, classification, yield rewriting,      *)
(* white-space trimming of the collector and the markdown pre-processor.   *)
(***************************************************************************)
RECURSIVE SkipComment(_), removeComments(_)
\* the tokens after the first "CC" of str, or <<"none">> when there is none
SkipComment(str) ==
    IF str = <<>> THEN <<"none">>
    ELSE IF Head(str) = "CC" THEN <<"some", Tail(str)>>
    ELSE SkipComment(Tail(str))

removeCommentsKept(str) == str

removeComments(str) ==
    IF str = <<>> THEN <<>>
    ELSE IF Head(str) = "CO" /\ SkipComment(Tail(str))[1] = "some"
         THEN removeComments(SkipComment(Tail(str))[2])
    ELSE <<Head(str)>> \o removeComments(Tail(str))

isLayoutTemplate(contents) ==
    \E i \in 1..Len(contents) : contents[i] \in {"TC", "TCA", "Y", "YT", "YA"}

replaceYieldArgDropped(input) ==
    [i \in 1..Len(input) |-> IF input[i] \in {"Y", "YT", "YA"} THEN "TC" ELSE input[i]]

replaceYieldWithTemplateContent(input) ==
    [i \in 1..Len(input) |->
        IF input[i] \in {"Y", "YT"} THEN "TC"
        ELSE IF input[i] = "YA" THEN "TCA"
        ELSE input[i]]

\* a directive, given as written with {{ }}, as written with left and its pair
written(left, tok) == IF left = "{{" THEN tok ELSE "[" \o tok

\* a text that holds left + " define" or left + "define"
hasDefine(left, contents) ==
    \E i \in 1..Len(contents) : contents[i] \in {written(left, "DEF"), written(left, "DEFC")}

defineContentStart(left, right) == written(left, "DEFC")

defineContentEnd(left, right) == written(left, "END")

wrapContentNever(left, right, contents) == contents

wrapContent(left, right, contents) ==
    IF ~hasDefine(left, contents)
    THEN <<defineContentStart(left, right)>> \o contents \o <<defineContentEnd(left, right)>>
    ELSE contents

\* a text as the parser set to the delimiter left reads it: the directives
\* written with left are actions, those written with the other pair are text
lexToken(left, tok) ==
    IF tok \in {"WS", "CO", "CC", "PO", "PC"} THEN tok
    ELSE IF left = "{{" THEN tok
    ELSE IF HasPrefix(tok, "[") THEN TrimPrefix(tok, "[")
    ELSE IF tok \in {"Y", "YT", "YA", "TC", "TCA", "DEF", "DEFC", "END", "BAD", "D"}
            \/ HasPrefix(tok, "P:") \/ HasPrefix(tok, "F:")
         THEN "{{" \o tok
    ELSE tok

lex(left, contents) == [i \in 1..Len(contents) |-> lexToken(left, contents[i])]

RECURSIVE TrimLeftSpace(_), TrimRightSpace(_)
TrimLeftSpace(data) ==
    IF data # <<>> /\ Head(data) = "WS" THEN TrimLeftSpace(Tail(data)) ELSE data

TrimRightSpace(data) ==
    IF data # <<>> /\ data[Len(data)] = "WS"
    THEN TrimRightSpace(SubSeq(data, 1, Len(data) - 1)) ELSE data

trimSpace(data) == TrimRightSpace(TrimLeftSpace(data))

markdownRun(data) == <<"PO">> \o data \o <<"PC">>

\* "P:name" is {{ partial "name" . }} and "F:name" the call {{ name }}
IsPartial(tok) == HasPrefix(tok, "P:")

IsFunc(tok) == HasPrefix(tok, "F:")

\* the function a token calls, "" when it calls none
calledFunc(tok) ==
    IF IsPartial(tok) THEN "partial"
    ELSE IF tok \in {"Y", "YT", "YA"} THEN "yield"
    ELSE IF IsFunc(tok) THEN TrimPrefix(tok, "F:")
    ELSE ""

\* html/template's Parse accepts a text unless it holds a malformed action or
\* calls a function that the template's function map does not define
parseOK(contents, funcs) ==
    \A i \in 1..Len(contents) :
        /\ contents[i] # "BAD"
        /\ calledFunc(contents[i]) # "" => calledFunc(contents[i]) \in DOMAIN funcs

(***************************************************************************)
(* The files a source may hold, in the lexical order in which fs.WalkDir   *)
(* visits them, and the engine's configuration as set by New.              *)
(***************************************************************************)
Candidates ==
    << [path |-> "a.html",          text |-> <<"a2", "Y">>],
       [path |-> "bc.html",         text |-> <<"bc">>],
       [path |-> "blocks.html",     text |-> <<"DEF", "b", "END">>],
       [path |-> "c.html",          text |-> <<"WS", "c", "CO", "Y", "CC", "WS">>],
       [path |-> "cdef.html",       text |-> <<"cd", "CO", "DEF", "x", "END", "CC">>],
       [path |-> "d.md",            text |-> <<"d">>],
       [path |-> "e.html",          text |-> <<"e", "BAD">>],
       [path |-> "empty.html",      text |-> <<>>],
       [path |-> "explicit.html",   text |-> <<"DEFC", "ex", "END">>],
       [path |-> "fn.html",         text |-> <<"fn", "F:f">>],
       [path |-> "footer.html",     text |-> <<"footer">>],
       [path |-> "g.html",          text |-> <<"g", "F:g">>],
       [path |-> "index.html",      text |-> <<"WS", "index", "D", "CO", "x", "CC",
                                               "P:side", "P:footer">>],
       [path |-> "layouts/a.html",  text |-> <<"a", "Y">>],
       [path |-> "layouts/ab.html", text |-> <<"ab", "TC", "WS">>],
       [path |-> "layouts/lf.html", text |-> <<"lf", "F:f", "TC">>],
       [path |-> "layouts/lg.html", text |-> <<"lg", "F:g", "TC">>],
       [path |-> "layouts/main.html",  text |-> <<"main", "YT", "m", "YA", "P:footer">>],
       [path |-> "layouts/plain.html", text |-> <<"main", "TC", "m", "TCA", "P:footer">>],
       [path |-> "layouts/sq.html",    text |-> <<"sq", "[Y">>],
       [path |-> "layouts/sqt.html",   text |-> <<"sqt", "[TC">>],
       [path |-> "miss.html",       text |-> <<"miss", "P:nope">>],
       [path |-> "n.txt",           text |-> <<"n">>],
       [path |-> "side.html",       text |-> <<"side", "P:footer">>] >>

FileIds == 1..Len(Candidates)

\* the sources of Spec and of SpecRead
LoadPool ==
    {i \in FileIds : Candidates[i].path \in
        {"bc.html", "c.html", "d.md", "e.html", "layouts/a.html", "layouts/ab.html", "n.txt"}}

Sources == {S \in SUBSET LoadPool : Cardinality(S) <= MaxFiles}

ReadPool == {i \in FileIds : Candidates[i].path \in {"c.html", "e.html", "layouts/a.html", "n.txt"}}

ReadSources == {S \in SUBSET ReadPool : Cardinality(S) <= MaxWorkers}

PathOf(S) == {Candidates[i].path : i \in S}

IdOf(p) == CHOOSE i \in FileIds : Candidates[i].path = p

rootDir == ""

layoutDir == "/layouts"

extension == ".html"

\* extensionHandler: ".md" is set by New; ".txt" stands for a parser registered
\* through Extensions that rejects its input
extensionHandler(cfgv, ext) ==
    IF ext = ".md" THEN "markdown"
    ELSE IF ext = ".txt" THEN cfgv.txtParser
    ELSE "nil"

NoErr == [kind |-> "nil", name |-> ""]

Err(k, n) == [kind |-> k, name |-> n]

EmptyMap == [x \in {} |-> <<>>]

\* m with key k set to v (a Go map assignment)
MapSet(m, k, v) == [x \in DOMAIN m \cup {k} |-> IF x = k THEN v ELSE m[x]]

(***************************************************************************)
(* Function maps: a name is mapped to a tag that tells which definition it  *)
(* is.  The process-wide map holds "partial", bound to the engine when it  *)
(* is translated; template.Funcs adds entries, a later one replacing an    *)
(* earlier one of the same name.                                           *)
(***************************************************************************)
builtinsAtStart == [x \in {"partial"} |-> "bind:PartialFunc"]

translateFuncs(funcMap) == [x \in DOMAIN funcMap |-> TrimPrefix(funcMap[x], "bind:")]

addFuncs(funcs, funcMap) ==
    [x \in DOMAIN funcs \cup DOMAIN funcMap |->
        IF x \in DOMAIN funcMap THEN funcMap[x] ELSE funcs[x]]

\* the defaults of New, and each option changed on its own; rootFuncs is the
\* function map New gives v.Root
DefaultConfig ==
    [reload |-> FALSE, defaultLayoutName |-> "", txtParser |-> "nil",
     left |-> "{{", right |-> "}}",
     rootFuncs |-> translateFuncs(builtinsAtStart),
     tmplFuncs |-> EmptyMap, layoutFuncs |-> EmptyMap]

Configs ==
    {DefaultConfig,
     [DefaultConfig EXCEPT !.reload = TRUE],
     [DefaultConfig EXCEPT !.defaultLayoutName = "a"],
     [DefaultConfig EXCEPT !.txtParser = "failing"]}

(***************************************************************************)
(* Blocks.load, lines 326-364: what the classification loop makes of one   *)
(* collected file, and the content / layout maps the loop can end with.    *)
(* A Go map is iterated in an unspecified order, so when two files get the *)
(* same logical name either text may be the one that stays.                *)
(***************************************************************************)
tmplNameOf(filename) ==
    TrimSuffix(TrimPrefix(trimDir(filename, rootDir), "/"), extension)

FileUnit(cfgv, filename, data) ==
    LET ext      == pathExt(filename)
        parser   == extensionHandler(cfgv, ext)
        parsed   == IF parser = "markdown" THEN markdownRun(data) ELSE data
        contents == removeComments(parsed)
        tmplName == tmplNameOf(filename)
    IN  IF parser = "failing" THEN [kind |-> "error", name |-> filename, text |-> <<>>]
        ELSE IF parser = "nil" /\ ext # extension
             THEN [kind |-> "skip", name |-> filename, text |-> <<>>]
        ELSE IF isLayoutTemplate(contents)
             THEN [kind |-> "layout", name |-> trimDir(tmplName, layoutDir),
                   text |-> replaceYieldWithTemplateContent(contents)]
        ELSE [kind |-> "content", name |-> tmplName, text |-> wrapContent(cfgv.left, cfgv.right, contents)]

UnitMaps(units, kind) ==
    LET names == {units[f].name : f \in {g \in DOMAIN units : units[g].kind = kind}}
    IN  {m \in [names -> {units[f].text : f \in DOMAIN units}] :
            \A n \in names : \E f \in DOMAIN units :
                units[f].kind = kind /\ units[f].name = n /\ units[f].text = m[n]}

ClassifyResults(cfgv, filesMap) ==
    LET units  == [f \in DOMAIN filesMap |-> FileUnit(cfgv, f, filesMap[f])]
        failed == {f \in DOMAIN units : units[f].kind = "error"}
    IN  IF failed # {}
        THEN {[err |-> Err("preprocess", f), contentTemplates |-> EmptyMap,
               layoutTemplates |-> EmptyMap] : f \in failed}
        ELSE {[err |-> NoErr, contentTemplates |-> c, layoutTemplates |-> l] :
                c \in UnitMaps(units, "content"), l \in UnitMaps(units, "layout")}

noFilesFoundNever(filesMap) == FALSE

noFilesFound(filesMap) == DOMAIN filesMap = {}

\* the template v.Root.Clone().Parse(contents) and the one
\* template.New(layout).Parse(layoutText).Parse(contentText)
NilTmpl == [layout |-> "", layoutText |-> <<>>, contentText |-> <<>>, funcs |-> EmptyMap]

ContentTmpl(contents, funcs) ==
    [layout |-> "root", layoutText |-> <<>>, contentText |-> contents, funcs |-> funcs]

LayoutTmpl(tmplName, contents, contentTmplContents, funcs) ==
    [layout |-> tmplName, layoutText |-> contents, contentText |-> contentTmplContents,
     funcs |-> funcs]

(***************************************************************************)
(* executeTemplate, lines 431-460: the lookup of a render against the      *)
(* registries T (Templates) and L (Layouts).                               *)
(***************************************************************************)
layoutArgName(layoutName) ==
    TrimPrefix(TrimPrefix(TrimSuffix(layoutName, extension), layoutDir), "/")

executeTemplate(T, L, tmplName, layoutName) ==
    LET tn  == TrimSuffix(tmplName, extension)
        ln  == layoutArgName(layoutName)
        key == makeLayoutTemplateName(tn, ln)
    IN  IF layoutName # ""
        THEN IF key \notin DOMAIN L
             THEN [err |-> Err("ErrNotExist", ln), tmpl |-> NilTmpl]
             ELSE [err |-> NoErr, tmpl |-> L[key]]
        ELSE IF tn \notin DOMAIN T
             THEN [err |-> Err("ErrNotExist", tn), tmpl |-> NilTmpl]
             ELSE [err |-> NoErr, tmpl |-> T[tn]]

(***************************************************************************)
(* tmpl.Execute(w, data), lines 443 and 459.  A content template executes  *)
(* the root template of New (lines 96-99), a space on either side of the   *)
(* "content" block; a layout-combined one executes the layout's text.      *)
(* What a token writes: literal text is itself, {{ . }} shows the data it  *)
(* is given, a function call shows which definition of the function ran,   *)
(* and a call of partial stays as an item, to be run by PartialFunc.       *)
(***************************************************************************)
rootText == <<"WS", "TC", "WS">>

\* the body of the first {{ define "content" }} of a text
contentBlock(text) ==
    LET starts == {i \in 1..Len(text) : text[i] = "DEFC"}
    IN  IF starts = {} THEN [defined |-> FALSE, body |-> <<>>]
        ELSE LET i    == CHOOSE x \in starts : \A y \in starts : x <= y
                 ends == {j \in (i + 1)..Len(text) : text[j] = "END"}
                 j    == IF ends = {} THEN Len(text) + 1
                         ELSE CHOOSE x \in ends : \A y \in ends : x <= y
             IN  [defined |-> TRUE, body |-> SubSeq(text, i + 1, j - 1)]

execToken(tok, funcs, data) ==
    IF tok = "D" THEN <<"D" \o data>>
    ELSE IF IsPartial(tok) /\ funcs["partial"] = "PartialFunc" THEN <<tok>>
    ELSE IF calledFunc(tok) # "" THEN <<calledFunc(tok) \o "@" \o funcs[calledFunc(tok)]>>
    ELSE <<tok>>

RECURSIVE execText(_, _, _)
execText(text, funcs, data) ==
    IF text = <<>> THEN <<>>
    ELSE execToken(Head(text), funcs, data) \o execText(Tail(text), funcs, data)

RECURSIVE execLayout(_, _, _, _)
execLayout(text, body, funcs, data) ==
    IF text = <<>> THEN <<>>
    ELSE (IF Head(text) = "TC" THEN execText(body, funcs, data)
          ELSE IF Head(text) = "TCA" THEN execText(body, funcs, ".Arg")
          ELSE execToken(Head(text), funcs, data))
         \o execLayout(Tail(text), body, funcs, data)

\* the items tmpl writes in order, or the error of a template that calls a
\* "content" block its set does not define
Execute(tmpl, data) ==
    LET main == IF tmpl.layout = "root" THEN rootText ELSE tmpl.layoutText
        blk  == contentBlock(tmpl.contentText)
        uses == \E i \in 1..Len(main) : main[i] \in {"TC", "TCA"}
    IN  IF uses /\ ~blk.defined
        THEN [err |-> Err("exec", "content"), items |-> <<>>]
        ELSE [err |-> NoErr, items |-> execLayout(main, blk.body, tmpl.funcs, data)]

\* the items before the next call of partial or end of one ("/P")
RECURSIVE plainPrefix(_)
plainPrefix(items) ==
    IF items = <<>> \/ IsPartial(Head(items)) \/ Head(items) = "/P" THEN <<>>
    ELSE <<Head(items)>> \o plainPrefix(Tail(items))

(***************************************************************************)
(* readFiles as one step: the results it can return for the source S.      *)
(* Any Info() or ReadFile call may fail; a cancellable context may fire at *)
(* any moment.  SpecRead below runs readFiles goroutine by goroutine, and  *)
(* ReadFilesSummarySound checks there that every result is one of these.   *)
(***************************************************************************)
collected(S) == [f \in PathOf(S) |-> trimSpace(Candidates[IdOf(f)].text)]

Restrict(m, D) == [x \in D |-> m[x]]

ReadFilesResults(S, cancellable) ==
    LET failure(e) == [files |-> EmptyMap, err |-> e, partial |-> FALSE]
    IN  {failure(Err("walk", f)) : f \in PathOf(S)}
        \cup {failure(Err("read", f)) : f \in PathOf(S)}
        \cup {[files |-> collected(S), err |-> NoErr, partial |-> FALSE]}
        \cup IF cancellable
             THEN {failure(Err("canceled", ""))}
                  \cup {[files |-> Restrict(collected(S), D), err |-> NoErr,
                         partial |-> TRUE] : D \in (SUBSET PathOf(S)) \ {PathOf(S)}}
             ELSE {}

(***************************************************************************)
(* State.                                                                  *)
(***************************************************************************)
VARIABLES
    fsys,       \* readFiles: the source it walks (the ids of its files)
    cfg,        \* reload, defaultLayoutName and the registered parsers
    Templates,  \* v.Templates
    Layouts,    \* v.Layouts
    mu,         \* v.mu: "free" or the caller that holds it
    pc,         \* where each caller is
    call,       \* the call each caller is in (or made last)
    res,        \* what each caller's last call returned
    ld,         \* the locals of the load in progress
    committed,  \* history: the registries as the last successful Load left them
    ctx,        \* readFiles: the cancellation state of the load's context
    walkPos,    \* readFiles: the files fs.WalkDir still has to visit
    wpc,        \* readFiles: where the worker of each file is
    errChan,    \* readFiles: the error channel (capacity 1)
    closer,     \* readFiles: the goroutine that waits for wg and closes errChan
    files,      \* readFiles: the files map
    ret,        \* readFiles: its result, once it has returned
    builtins,   \* the process-wide function map that Register fills
    mfs,        \* MemoryFileSystem.files: name -> contents and read offset
    rd          \* the callers of a shared MemoryFileSystem: their call and its result

vars == <<fsys, cfg, Templates, Layouts, mu, pc, call, res, ld, committed,
          ctx, walkPos, wpc, errChan, closer, files, ret, builtins, mfs, rd>>

engineVars == <<Templates, Layouts, mu, pc, call, res, ld, committed>>

readVars == <<ctx, walkPos, wpc, errChan, closer, files, ret>>

Procs == {"p1", "p2"}

TmplArgs == {"c", "missing"}

LayoutArgs == {"", "a"}

\* loads counts the Loads started within the call
NoCall ==
    [op |-> "none", tmplName |-> "", layoutName |-> "", cancellable |-> FALSE, loads |-> 0]

\* a render: the template it resolved to, its error, and of its execution what
\* is still to run (todo), what was written to w (out), the partial calls made,
\* how many of them are running (depth) and what they have written to their
\* buffers (buf)
NoRes ==
    [done |-> FALSE, err |-> NoErr, tmpl |-> NilTmpl, during |-> FALSE, pre |-> NilTmpl,
     started |-> FALSE, todo |-> <<>>, out |-> <<>>, partials |-> <<>>,
     depth |-> 0, buf |-> <<>>, reloaded |-> FALSE]

LdIdle ==
    [nofiles |-> FALSE, got |-> {}, fromGood |-> FALSE, rendered |-> FALSE,
     layoutBuiltinFuncs |-> EmptyMap,
     contentTemplates |-> EmptyMap, layoutTemplates |-> EmptyMap,
     todoC |-> {}, todoL |-> {}, curL |-> "", todoLC |-> {}, err |-> NoErr]

NoCommit == [ok |-> FALSE, T |-> EmptyMap, L |-> EmptyMap]

ReadIdle ==
    /\ ctx = [fired |-> FALSE]
    /\ walkPos = {}
    /\ wpc = [i \in {} |-> "none"]
    /\ errChan = [buf |-> <<>>, closed |-> FALSE, first |-> NoErr]
    /\ closer = "none"
    /\ files = EmptyMap
    /\ ret = [returned |-> FALSE, files |-> EmptyMap, err |-> NoErr]

\* a MemoryFileSystem nobody has registered a file in or called yet
NoRd == [pc |-> "idle", op |-> "none", name |-> "", kind |-> "none",
         entries |-> <<>>, walked |-> {}, data |-> <<>>, calls |-> 0]

Readers == {"r1", "r2"}

MemIdle ==
    /\ mfs = EmptyMap
    /\ rd = [r \in Readers |-> NoRd]


\* a new engine, whatever its options
EngineNew ==
    /\ Templates = EmptyMap
    /\ Layouts = EmptyMap
    /\ mu = "free"
    /\ pc = [p \in Procs |-> "idle"]
    /\ call = [p \in Procs |-> NoCall]
    /\ res = [p \in Procs |-> NoRes]
    /\ ld = LdIdle
    /\ committed = NoCommit

EngineInit ==
    /\ cfg \in Configs
    /\ builtins = builtinsAtStart
    /\ EngineNew

Init ==
    /\ fsys = {}
    /\ EngineInit
    /\ ReadIdle
    /\ MemIdle

(***************************************************************************)
(* The function maps of the templates load builds: a content template is   *)
(* v.Root.Clone().Funcs(v.tmplFuncs) (lines 368-373); a layout is parsed   *)
(* with layoutBuiltinFuncs and v.layoutFuncs (line 388) and its set then   *)
(* gets v.tmplFuncs (line 393).                                            *)
(***************************************************************************)
contentSetFuncs == addFuncs(cfg.rootFuncs, cfg.tmplFuncs)

layoutParseFuncs == addFuncs(ld.layoutBuiltinFuncs, cfg.layoutFuncs)

layoutSetFuncs == addFuncs(layoutParseFuncs, cfg.tmplFuncs)

\* ExecuteTemplate reloads when v.reload is set; TemplateString never does
reloadsAlways(cfgv, op) == cfgv.reload

reloadsUnasked(cfgv, op) == op = "ExecuteTemplate"

reloads(cfgv, op) == op = "ExecuteTemplate" /\ cfgv.reload

(***************************************************************************)
(* Load / LoadWithContext, lines 288-303: the call, v.mu.Lock(), the two   *)
(* clearMap calls.                                                         *)
(***************************************************************************)
LoadCall(p, cancellable) ==
    /\ pc[p] = "idle"
    /\ call' = [call EXCEPT ![p] = [op |-> IF cancellable THEN "LoadWithContext" ELSE "Load",
                                    tmplName |-> "", layoutName |-> "",
                                    cancellable |-> cancellable, loads |-> 0]]
    /\ res' = [res EXCEPT ![p] = NoRes]
    /\ pc' = [pc EXCEPT ![p] = "lock"]
    /\ UNCHANGED <<mfs, rd, fsys, cfg, builtins, Templates, Layouts, mu, ld, committed, readVars>>

LockNoWait(p) ==
    /\ pc[p] = "lock"
    /\ mu' = p
    /\ ld' = [LdIdle EXCEPT !.fromGood =
                 committed.ok /\ Templates = committed.T /\ Layouts = committed.L]
    /\ call' = [call EXCEPT ![p].loads = @ + 1]
    /\ pc' = [pc EXCEPT ![p] = "clearT"]
    /\ UNCHANGED <<mfs, rd, fsys, cfg, builtins, Templates, Layouts, res, committed, readVars>>

Lock(p) ==
    /\ pc[p] = "lock"
    /\ mu = "free"
    /\ mu' = p
    /\ ld' = [LdIdle EXCEPT !.fromGood =
                 committed.ok /\ Templates = committed.T /\ Layouts = committed.L]
    /\ call' = [call EXCEPT ![p].loads = @ + 1]
    /\ pc' = [pc EXCEPT ![p] = "clearT"]
    /\ UNCHANGED <<mfs, rd, fsys, cfg, builtins, Templates, Layouts, res, committed, readVars>>

clearMapKept(m) == m

clearMap(m) == EmptyMap

ClearTemplates(p) ==
    /\ pc[p] = "clearT"
    /\ Templates' = clearMap(Templates)
    /\ pc' = [pc EXCEPT ![p] = "clearL"]
    /\ UNCHANGED <<mfs, rd, fsys, cfg, builtins, Layouts, mu, call, res, ld, committed, readVars>>

ClearLayouts(p) ==
    /\ pc[p] = "clearL"
    /\ Layouts' = clearMap(Layouts)
    /\ pc' = [pc EXCEPT ![p] = "read"]
    /\ UNCHANGED <<mfs, rd, fsys, cfg, builtins, Templates, mu, call, res, ld, committed, readVars>>

(***************************************************************************)
(* Blocks.load from the return of readFiles to the start of the content    *)
(* loop, lines 309-364: r is what readFiles returned for the source S.     *)
(* nofiles (S holds no file) and got (the paths of the mapping returned)   *)
(* are kept for the properties only.                                       *)
(***************************************************************************)
loadOutcomes(cfgv, S, r) ==
    LET out(e, c, l) == [nofiles |-> S = {}, got |-> DOMAIN r.files, err |-> e,
                         contentTemplates |-> c, layoutTemplates |-> l]
    IN  IF r.err # NoErr
        THEN {out(r.err, EmptyMap, EmptyMap)}
        ELSE IF noFilesFound(r.files)
        THEN {out(Err("no template files found", ""), EmptyMap, EmptyMap)}
        ELSE {out(c.err, c.contentTemplates, c.layoutTemplates) :
                 c \in ClassifyResults(cfgv, r.files)}

AfterRead(p, o) ==
    /\ ld' = [ld EXCEPT !.nofiles = o.nofiles, !.got = o.got, !.err = o.err,
                        !.contentTemplates = o.contentTemplates,
                        !.layoutTemplates = o.layoutTemplates,
                        !.todoC = DOMAIN o.contentTemplates]
    /\ pc' = [pc EXCEPT ![p] = IF o.err # NoErr THEN "unlock" ELSE "content"]

\* readFiles taken as one step, on the source as it is at this Load: every
\* outcome of load up to the content loop, for each configuration
CollectOutcomes ==
    [cfgv \in Configs, cancellable \in BOOLEAN |->
        UNION {UNION {loadOutcomes(cfgv, S, r) : r \in ReadFilesResults(S, cancellable)} :
                 S \in Sources}]

Collect(p) ==
    /\ pc[p] = "read"
    /\ \E o \in CollectOutcomes[cfg, call[p].cancellable] : AfterRead(p, o)
    /\ UNCHANGED <<mfs, rd, fsys, cfg, builtins, Templates, Layouts, mu, call, res, committed, readVars>>

(***************************************************************************)
(* The content loop, lines 367-379: one iteration.                         *)
(***************************************************************************)
ContentStep(p) ==
    /\ pc[p] = "content"
    /\ IF ld.todoC = {}
       THEN /\ ld' = [ld EXCEPT !.todoL = DOMAIN ld.layoutTemplates,
                               !.layoutBuiltinFuncs = translateFuncs(builtins)]
            /\ pc' = [pc EXCEPT ![p] = "layout"]
            /\ UNCHANGED Templates
       ELSE \E tmplName \in ld.todoC :
              \* v.Root.Clone() keeps the delimiters that Delims gave v.Root
              LET contents == lex(cfg.left, ld.contentTemplates[tmplName])
              IN  IF ~parseOK(contents, contentSetFuncs)
                  THEN /\ ld' = [ld EXCEPT !.err = Err("parse", tmplName)]
                       /\ pc' = [pc EXCEPT ![p] = "unlock"]
                       /\ UNCHANGED Templates
                  ELSE /\ Templates' = MapSet(Templates, tmplName, ContentTmpl(contents, contentSetFuncs))
                       /\ ld' = [ld EXCEPT !.todoC = @ \ {tmplName}]
                       /\ UNCHANGED pc
    /\ UNCHANGED <<mfs, rd, fsys, cfg, builtins, Layouts, mu, call, res, committed, readVars>>

(***************************************************************************)
(* The layout loops, lines 383-401: one iteration of the inner loop (with  *)
(* the step of the outer loop that leads to it), or the return.            *)
(***************************************************************************)
Compose(p, tmplName, contentTmplName, restL, restC) ==
    \* template.New(tmplName) has the delimiters of html/template, {{ and }}
    LET contents            == lex("{{", ld.layoutTemplates[tmplName])
        contentTmplContents == lex("{{", ld.contentTemplates[contentTmplName])
        key                 == makeLayoutTemplateName(contentTmplName, tmplName)
    IN  IF ~parseOK(contents, layoutParseFuncs)
        THEN /\ ld' = [ld EXCEPT !.err = Err("parse layout", tmplName)]
             /\ pc' = [pc EXCEPT ![p] = "unlock"]
             /\ UNCHANGED Layouts
        ELSE IF ~parseOK(contentTmplContents, layoutSetFuncs)
        THEN /\ ld' = [ld EXCEPT !.err = Err("parse layout content", contentTmplName)]
             /\ pc' = [pc EXCEPT ![p] = "unlock"]
             /\ UNCHANGED Layouts
        ELSE /\ Layouts' = MapSet(Layouts, key,
                                  LayoutTmpl(tmplName, contents, contentTmplContents,
                                             layoutSetFuncs))
             /\ ld' = [ld EXCEPT !.todoL = restL, !.todoLC = restC,
                                 !.curL = IF restC = {} THEN "" ELSE tmplName]
             /\ UNCHANGED pc

LayoutStep(p) ==
    /\ pc[p] = "layout"
    /\ IF ld.todoLC # {}
       THEN \E c \in ld.todoLC : Compose(p, ld.curL, c, ld.todoL, ld.todoLC \ {c})
       ELSE IF ld.todoL # {} /\ DOMAIN ld.contentTemplates # {}
       THEN \E l \in ld.todoL : \E c \in DOMAIN ld.contentTemplates :
               Compose(p, l, c, ld.todoL \ {l}, DOMAIN ld.contentTemplates \ {c})
       ELSE /\ ld' = [ld EXCEPT !.todoL = {}]
            /\ pc' = [pc EXCEPT ![p] = "unlock"]
            /\ UNCHANGED Layouts
    /\ UNCHANGED <<mfs, rd, fsys, cfg, builtins, Templates, mu, call, res, committed, readVars>>

(***************************************************************************)
(* The deferred v.mu.Unlock() and the return of Load; ExecuteTemplate goes *)
(* on to its lookup when its Load succeeded (lines 418-428).  In the state *)
(* before this step load has returned ld.err and v.mu is still held.       *)
(***************************************************************************)
Unlock(p) ==
    /\ pc[p] = "unlock"
    /\ mu' = "free"
    /\ committed' = IF ld.err = NoErr
                    THEN [ok |-> TRUE, T |-> Templates, L |-> Layouts]
                    ELSE committed
    /\ IF call[p].op = "ExecuteTemplate" /\ ld.err = NoErr
       THEN /\ pc' = [pc EXCEPT ![p] = "exec"]
            /\ UNCHANGED <<call, res>>
       ELSE IF call[p].op = "ExecuteTemplate"
       THEN /\ pc' = [pc EXCEPT ![p] = "idle"]
            /\ res' = [res EXCEPT ![p] = [NoRes EXCEPT !.done = TRUE, !.err = ld.err]]
            /\ UNCHANGED call
       ELSE /\ pc' = [pc EXCEPT ![p] = "idle"]
            /\ call' = [call EXCEPT ![p] = NoCall]
            /\ res' = [res EXCEPT ![p] = NoRes]
    /\ ld' = LdIdle
    /\ UNCHANGED <<mfs, rd, fsys, cfg, builtins, Templates, Layouts, readVars>>

(***************************************************************************)
(* ExecuteTemplate and TemplateString, lines 417-473.  Neither takes v.mu: *)
(* a lookup that overlaps a write of the same map by a Load is a data race *)
(* which the Go runtime may end with a fatal error.                        *)
(***************************************************************************)
ExecuteTemplateCall(p, tmplName, layoutName) ==
    /\ pc[p] = "idle"
    /\ call' = [call EXCEPT ![p] = [op |-> "ExecuteTemplate", tmplName |-> tmplName,
                                    layoutName |-> layoutName, cancellable |-> FALSE,
                                    loads |-> 0]]
    /\ res' = [res EXCEPT ![p] = NoRes]
    /\ pc' = [pc EXCEPT ![p] = IF reloads(cfg, "ExecuteTemplate") THEN "lock" ELSE "exec"]
    /\ UNCHANGED <<mfs, rd, fsys, cfg, builtins, Templates, Layouts, mu, ld, committed, readVars>>

TemplateStringCall(p, tmplName, layoutName) ==
    /\ pc[p] = "idle"
    /\ call' = [call EXCEPT ![p] = [op |-> "TemplateString", tmplName |-> tmplName,
                                    layoutName |-> layoutName, cancellable |-> FALSE,
                                    loads |-> 0]]
    /\ res' = [res EXCEPT ![p] = NoRes]
    /\ pc' = [pc EXCEPT ![p] = IF reloads(cfg, "TemplateString") THEN "lock" ELSE "exec"]
    /\ UNCHANGED <<mfs, rd, fsys, cfg, builtins, Templates, Layouts, mu, ld, committed, readVars>>

\* the layout name executeTemplate is called with
effectiveLayout(cfgv, c) ==
    IF c.op = "ExecuteTemplate" /\ c.layoutName = ""
    THEN cfgv.defaultLayoutName ELSE c.layoutName

WritesTemplates(q) == pc[q] \in {"clearT", "content"}

WritesLayouts(q) == pc[q] \in {"clearL", "layout"}

Lookup(p) ==
    /\ pc[p] = "exec"
    /\ LET layoutName == effectiveLayout(cfg, call[p])
           found      == executeTemplate(Templates, Layouts, call[p].tmplName, layoutName)
           before     == executeTemplate(committed.T, committed.L, call[p].tmplName, layoutName)
           racing     == \E q \in Procs \ {p} :
                            IF layoutName # "" THEN WritesLayouts(q) ELSE WritesTemplates(q)
           during     == mu \in Procs \ {p}
       IN  /\ \E out \in {found} \cup
                         (IF racing THEN {[err |-> Err("fatal", ""), tmpl |-> NilTmpl]} ELSE {}) :
                 res' = [res EXCEPT ![p] = [NoRes EXCEPT !.done = TRUE, !.err = out.err,
                                                         !.tmpl = out.tmpl,
                                                         !.during = during,
                                                         !.pre = before.tmpl]]
           /\ ld' = IF during THEN [ld EXCEPT !.rendered = TRUE] ELSE ld
    /\ pc' = [pc EXCEPT ![p] = "idle"]
    /\ UNCHANGED <<mfs, rd, fsys, cfg, builtins, Templates, Layouts, mu, call, committed, readVars>>

(***************************************************************************)
(* A render step by step.  The first step is executeTemplate's lookup and   *)
(* the start of tmpl.Execute (lines 431-460); each further step runs the   *)
(* execution up to and including the next call of partial, which is        *)
(* PartialFunc (lines 476-486): TemplateString(partialName, "", data) and  *)
(* the insertion of what it returned.  A failing partial fails the whole   *)
(* execution; what was written to w before stays written.                  *)
(***************************************************************************)
PartialCallExecute(c, partialName) ==
    [c EXCEPT !.op = "ExecuteTemplate", !.tmplName = partialName, !.layoutName = ""]

PartialCall(c, partialName) ==
    [c EXCEPT !.op = "TemplateString", !.tmplName = partialName, !.layoutName = ""]

RenderFinish(p, r, e) ==
    /\ res' = [res EXCEPT ![p] = [r EXCEPT !.done = TRUE, !.started = TRUE, !.err = e,
                                           !.todo = <<>>, !.buf = <<>>, !.depth = 0]]
    /\ pc' = [pc EXCEPT ![p] = "idle"]

RenderStep(p) ==
    /\ pc[p] = "exec"
    /\ LET r == res[p]
       IN  IF ~r.started
           THEN LET found == executeTemplate(Templates, Layouts, call[p].tmplName,
                                             effectiveLayout(cfg, call[p]))
                    ex    == Execute(found.tmpl, ".")
                IN  IF found.err # NoErr THEN RenderFinish(p, r, found.err)
                    ELSE IF ex.err # NoErr
                    THEN RenderFinish(p, [r EXCEPT !.tmpl = found.tmpl], ex.err)
                    ELSE /\ res' = [res EXCEPT ![p] = [r EXCEPT !.started = TRUE,
                                                                !.tmpl = found.tmpl,
                                                                !.todo = ex.items]]
                         /\ UNCHANGED pc
           ELSE LET lits == plainPrefix(r.todo)
                    rest == SubSeq(r.todo, Len(lits) + 1, Len(r.todo))
                    out  == IF r.depth = 0 THEN r.out \o lits ELSE r.out
                    buf  == IF r.depth = 0 THEN <<>> ELSE r.buf \o lits
                    w    == [r EXCEPT !.out = out, !.buf = buf]
                IN  IF rest = <<>> THEN RenderFinish(p, w, NoErr)
                    ELSE IF Head(rest) = "/P"
                    THEN /\ res' = [res EXCEPT ![p] =
                                [w EXCEPT !.depth = @ - 1, !.todo = Tail(rest),
                                          !.out = IF r.depth = 1 THEN out \o buf ELSE out,
                                          !.buf = IF r.depth = 1 THEN <<>> ELSE buf]]
                         /\ UNCHANGED pc
                    ELSE IF reloads(cfg, "TemplateString") /\ ~r.reloaded
                    THEN /\ res' = [res EXCEPT ![p] = [r EXCEPT !.reloaded = TRUE]]
                         /\ pc' = [pc EXCEPT ![p] = "lock"]
                    ELSE LET partialName == TrimPrefix(Head(rest), "P:")
                             c     == PartialCall(call[p], partialName)
                             found == executeTemplate(Templates, Layouts, c.tmplName,
                                                      effectiveLayout(cfg, c))
                             ex    == Execute(found.tmpl, ".")
                         IN  IF found.err # NoErr THEN RenderFinish(p, w, found.err)
                             ELSE IF ex.err # NoErr THEN RenderFinish(p, w, ex.err)
                             ELSE /\ res' = [res EXCEPT ![p] =
                                         [w EXCEPT !.depth = @ + 1, !.reloaded = FALSE,
                                                   !.todo = ex.items \o <<"/P">> \o Tail(rest),
                                                   !.partials = Append(@,
                                                       [name |-> partialName,
                                                        tmpl |-> found.tmpl])]]
                                  /\ UNCHANGED pc
    /\ UNCHANGED <<mfs, rd, fsys, cfg, builtins, Templates, Layouts, mu, call, ld, committed, readVars>>

\* one caller at a time: Loads and renders follow one another
Next ==
    \/ \E c \in BOOLEAN : LoadCall("p1", c)
    \/ Lock("p1")
    \/ ClearTemplates("p1")
    \/ ClearLayouts("p1")
    \/ Collect("p1")
    \/ ContentStep("p1")
    \/ LayoutStep("p1")
    \/ Unlock("p1")
    \/ \E t \in TmplArgs, l \in LayoutArgs : ExecuteTemplateCall("p1", t, l)
    \/ \E t \in TmplArgs, l \in LayoutArgs : TemplateStringCall("p1", t, l)
    \/ Lookup("p1")

Spec == Init /\ [][Next]_vars

(***************************************************************************)
(* readFiles goroutine by goroutine (fs.go, readFiles): the walk, one       *)
(* worker per regular file, the goroutine that closes errChan once the     *)
(* WaitGroup is done, and the final select.  The context readFiles gets is  *)
(* the one load derives (line 306): it is done once the caller's context   *)
(* has fired or load has returned (the deferred cancel).                   *)
(***************************************************************************)
Terminal == {"failed", "skipped", "stored"}

ctxDone == ctx.fired \/ (ret.returned /\ pc["p1"] \in {"unlock", "idle"})

ReadFilesStart(p) ==
    /\ pc[p] = "read"
    /\ pc' = [pc EXCEPT ![p] = "reading"]
    /\ walkPos' = fsys
    /\ UNCHANGED <<mfs, rd, fsys, cfg, builtins, Templates, Layouts, mu, call, res, ld, committed,
                   ctx, wpc, errChan, closer, files, ret>>

\* the caller's context fires while readFiles is running or about to run
Cancel(p) ==
    /\ pc[p] \in {"read", "reading"}
    /\ call[p].cancellable
    /\ ~ctx.fired
    /\ ctx' = [ctx EXCEPT !.fired = TRUE]
    /\ UNCHANGED <<mfs, rd, fsys, cfg, builtins, engineVars, walkPos, wpc, errChan, closer, files, ret>>

\* readFiles returns r to load, which goes on to its classification
ReadFilesReturn(p, r) ==
    /\ ret' = [returned |-> TRUE, files |-> r.files, err |-> r.err]
    /\ \E o \in loadOutcomes(cfg, fsys, r) : AfterRead(p, o)

Min(S) == CHOOSE i \in S : \A j \in S : i <= j

\* the WalkDir callback on the next regular file: Info() fails, the context is
\* done, or a worker is launched
WalkFile(p) ==
    /\ pc[p] = "reading"
    /\ closer = "none"
    /\ walkPos # {}
    /\ LET i == Min(walkPos)
       IN  \/ /\ ReadFilesReturn(p, [files |-> EmptyMap, partial |-> FALSE,
                                     err |-> Err("walk", Candidates[i].path)])
              /\ UNCHANGED <<walkPos, wpc>>
           \/ /\ ctxDone
              /\ ReadFilesReturn(p, [files |-> EmptyMap, partial |-> FALSE,
                                     err |-> Err("canceled", "")])
              /\ UNCHANGED <<walkPos, wpc>>
           \/ /\ ~ctxDone
              /\ walkPos' = walkPos \ {i}
              /\ wpc' = MapSet(wpc, i, "read")
              /\ UNCHANGED <<pc, ld, ret>>
    /\ UNCHANGED <<mfs, rd, fsys, cfg, builtins, Templates, Layouts, mu, call, res, committed,
                   ctx, errChan, closer, files>>

\* the walk is over: the goroutine that waits for the workers is started
WalkDone(p) ==
    /\ pc[p] = "reading"
    /\ closer = "none"
    /\ walkPos = {}
    /\ closer' = "waiting"
    /\ UNCHANGED <<mfs, rd, fsys, cfg, builtins, engineVars, ctx, walkPos, wpc, errChan, files, ret>>

\* select { case errChan <- err: default: }, with the error kept as the first
\* one when none was delivered before
sendErrLatest(ch, e) ==
    [ch EXCEPT !.buf = <<e>>, !.first = IF @ = NoErr THEN e ELSE @]

sendErr(ch, e) ==
    IF Len(ch.buf) = 0
    THEN [ch EXCEPT !.buf = <<e>>, !.first = IF @ = NoErr THEN e ELSE @]
    ELSE ch

WorkerRead(i) ==
    /\ i \in DOMAIN wpc
    /\ wpc[i] = "read"
    /\ \/ /\ errChan' = sendErr(errChan, Err("read", Candidates[i].path))
          /\ wpc' = [wpc EXCEPT ![i] = "failed"]
       \/ /\ wpc' = [wpc EXCEPT ![i] = "check"]
          /\ UNCHANGED errChan
    /\ UNCHANGED <<mfs, rd, fsys, cfg, builtins, engineVars, ctx, walkPos, closer, files, ret>>

WorkerCheck(i) ==
    /\ i \in DOMAIN wpc
    /\ wpc[i] = "check"
    /\ wpc' = [wpc EXCEPT ![i] = IF ctxDone THEN "skipped" ELSE "store"]
    /\ UNCHANGED <<mfs, rd, fsys, cfg, builtins, engineVars, ctx, walkPos, errChan, closer, files, ret>>

WorkerStore(i) ==
    /\ i \in DOMAIN wpc
    /\ wpc[i] = "store"
    /\ files' = MapSet(files, Candidates[i].path, trimSpace(Candidates[i].text))
    /\ wpc' = [wpc EXCEPT ![i] = "stored"]
    /\ UNCHANGED <<mfs, rd, fsys, cfg, builtins, engineVars, ctx, walkPos, errChan, closer, ret>>

\* wg.Wait() has returned: close(errChan)
CloseErrChan ==
    /\ closer = "waiting"
    /\ \A i \in DOMAIN wpc : wpc[i] \in Terminal
    /\ closer' = "closed"
    /\ errChan' = [errChan EXCEPT !.closed = TRUE]
    /\ UNCHANGED <<mfs, rd, fsys, cfg, builtins, engineVars, ctx, walkPos, wpc, files, ret>>

\* the final select: a receive from errChan (an error, or nil once it is closed
\* and empty) or ctx.Done()
Select(p) ==
    /\ pc[p] = "reading"
    /\ closer # "none"
    /\ \/ /\ Len(errChan.buf) > 0
          /\ errChan' = [errChan EXCEPT !.buf = <<>>]
          /\ ReadFilesReturn(p, [files |-> EmptyMap, partial |-> FALSE,
                                 err |-> errChan.buf[1]])
       \/ /\ Len(errChan.buf) = 0
          /\ errChan.closed
          /\ UNCHANGED errChan
          /\ ReadFilesReturn(p, [files |-> files, err |-> NoErr,
                                 partial |-> DOMAIN files # PathOf(fsys)])
       \/ /\ ctxDone
          /\ UNCHANGED errChan
          /\ ReadFilesReturn(p, [files |-> EmptyMap, partial |-> FALSE,
                                 err |-> Err("canceled", "")])
    /\ UNCHANGED <<mfs, rd, fsys, cfg, builtins, Templates, Layouts, mu, call, res, committed,
                   ctx, walkPos, wpc, closer, files>>

InitRead ==
    /\ fsys \in ReadSources
    /\ EngineInit
    /\ cfg = DefaultConfig
    /\ ReadIdle
    /\ MemIdle

\* one LoadWithContext / Load, with readFiles run goroutine by goroutine
NextRead ==
    \/ \E c \in BOOLEAN : LoadCall("p1", c) /\ ~ret.returned
    \/ Lock("p1")
    \/ ClearTemplates("p1")
    \/ ClearLayouts("p1")
    \/ ReadFilesStart("p1")
    \/ Cancel("p1")
    \/ WalkFile("p1")
    \/ WalkDone("p1")
    \/ \E i \in FileIds : WorkerRead(i)
    \/ \E i \in FileIds : WorkerCheck(i)
    \/ \E i \in FileIds : WorkerStore(i)
    \/ CloseErrChan
    \/ Select("p1")
    \/ ContentStep("p1")
    \/ LayoutStep("p1")
    \/ Unlock("p1")

SpecRead == InitRead /\ [][NextRead]_vars

(***************************************************************************)
(* A Load on one goroutine and ExecuteTemplate calls on another.  The      *)
(* render takes no lock, so its lookup falls anywhere between the steps of *)
(* the Load.                                                               *)
(***************************************************************************)
ConcSources ==
    {{IdOf("c.html"), IdOf("layouts/a.html")},
     {IdOf("c.html"), IdOf("bc.html"), IdOf("layouts/a.html")}}

\* readFiles taken as one step on one of the sources SS
CollectFrom(p, SS) ==
    /\ pc[p] = "read"
    /\ \E S \in SS : \E r \in ReadFilesResults(S, call[p].cancellable) :
          \E o \in loadOutcomes(cfg, S, r) : AfterRead(p, o)
    /\ UNCHANGED <<mfs, rd, fsys, cfg, builtins, Templates, Layouts, mu, call, res, committed, readVars>>

InitConc ==
    /\ fsys = {}
    /\ EngineInit
    /\ cfg = DefaultConfig
    /\ ReadIdle
    /\ MemIdle

NextConc ==
    \/ LoadCall("p1", FALSE)
    \/ Lock("p1")
    \/ ClearTemplates("p1")
    \/ ClearLayouts("p1")
    \/ CollectFrom("p1", ConcSources)
    \/ ContentStep("p1")
    \/ LayoutStep("p1")
    \/ Unlock("p1")
    \/ \E t \in TmplArgs, l \in LayoutArgs : ExecuteTemplateCall("p2", t, l)
    \/ Lookup("p2")

SpecConc == InitConc /\ [][NextConc]_vars

(***************************************************************************)
(* Load called on two goroutines at once, on a source that may change from *)
(* one Load to the next.                                                   *)
(***************************************************************************)
InitLoads ==
    /\ fsys = {}
    /\ EngineInit
    /\ cfg = DefaultConfig
    /\ ReadIdle
    /\ MemIdle

NextLoads ==
    \E p \in Procs :
        \/ LoadCall(p, FALSE)
        \/ Lock(p)
        \/ ClearTemplates(p)
        \/ ClearLayouts(p)
        \/ CollectFrom(p, ConcSources)
        \/ ContentStep(p)
        \/ LayoutStep(p)
        \/ Unlock(p)

SpecLoads == InitLoads /\ [][NextLoads]_vars

(***************************************************************************)
(* Loads that follow one another on a source that does not change.         *)
(***************************************************************************)
ReloadSources ==
    {{IdOf("c.html"), IdOf("layouts/a.html")},
     {IdOf("a.html"), IdOf("c.html"), IdOf("layouts/a.html")},
     {IdOf("bc.html"), IdOf("c.html"), IdOf("layouts/a.html"), IdOf("layouts/ab.html")}}

InitReload ==
    /\ fsys \in ReloadSources
    /\ EngineInit
    /\ cfg = DefaultConfig
    /\ ReadIdle
    /\ MemIdle

NextReload ==
    \/ LoadCall("p1", FALSE)
    \/ Lock("p1")
    \/ ClearTemplates("p1")
    \/ ClearLayouts("p1")
    \/ CollectFrom("p1", {fsys})
    \/ ContentStep("p1")
    \/ LayoutStep("p1")
    \/ Unlock("p1")

SpecReload == InitReload /\ [][NextReload]_vars

(***************************************************************************)
(* Renders executed step by step on one engine: a source that is loaded    *)
(* by Load or, with Reload(true), by ExecuteTemplate; content files that   *)
(* call partial, layouts written with yield and with {{ template "content" *)
(* }}, a content file that calls an absent partial, a file that does not   *)
(* parse.                                                                  *)
(***************************************************************************)
RenderSources ==
    {{IdOf("footer.html"), IdOf("index.html"), IdOf("side.html"),
      IdOf("layouts/main.html"), IdOf("layouts/plain.html")},
     {IdOf("c.html"), IdOf("d.md"), IdOf("footer.html"), IdOf("miss.html"),
      IdOf("layouts/main.html")},
     {IdOf("e.html"), IdOf("footer.html")}}

RenderConfigs ==
    {DefaultConfig,
     [DefaultConfig EXCEPT !.reload = TRUE],
     [DefaultConfig EXCEPT !.defaultLayoutName = "main"]}

RenderTmplArgs == {"index", "c", "d.md", "miss", "footer"}

RenderLayoutArgs == {"", "main", "plain", "layouts/main", "layouts/main.html", "/layouts/main"}

InitRender ==
    /\ fsys \in RenderSources
    /\ cfg \in RenderConfigs
    /\ builtins = builtinsAtStart
    /\ EngineNew
    /\ ReadIdle
    /\ MemIdle

NextRender ==
    \/ LoadCall("p1", FALSE)
    \/ Lock("p1")
    \/ ClearTemplates("p1")
    \/ ClearLayouts("p1")
    \/ CollectFrom("p1", {fsys})
    \/ ContentStep("p1")
    \/ LayoutStep("p1")
    \/ Unlock("p1")
    \/ \E t \in RenderTmplArgs, l \in RenderLayoutArgs : ExecuteTemplateCall("p1", t, l)
    \/ \E t \in RenderTmplArgs, l \in RenderLayoutArgs : TemplateStringCall("p1", t, l)
    \/ RenderStep("p1")

SpecRender == InitRender /\ [][NextRender]_vars

(***************************************************************************)
(* Concurrent renders.  In SpecRenders auto-reload is off; p1 loads the    *)
(* engine while nobody renders, and then p1 and p2 render at the same      *)
(* time, step by step, names that exist, names that do not and templates   *)
(* whose execution fails at a partial.                                     *)
(***************************************************************************)
RendersSources ==
    {{IdOf("footer.html"), IdOf("index.html"), IdOf("side.html"), IdOf("layouts/main.html")},
     {IdOf("c.html"), IdOf("footer.html"), IdOf("miss.html"), IdOf("layouts/main.html")}}

RendersTmplArgs == {"index", "c", "miss"}

RendersLayoutArgs == {"", "main"}

NotLoading == pc["p1"] \in {"idle", "exec"}

InitRenders ==
    /\ fsys \in RendersSources
    /\ cfg = DefaultConfig
    /\ builtins = builtinsAtStart
    /\ EngineNew
    /\ ReadIdle
    /\ MemIdle

NextRenders ==
    \/ (pc["p2"] = "idle" /\ LoadCall("p1", FALSE))
    \/ Lock("p1")
    \/ ClearTemplates("p1")
    \/ ClearLayouts("p1")
    \/ CollectFrom("p1", {fsys})
    \/ ContentStep("p1")
    \/ LayoutStep("p1")
    \/ Unlock("p1")
    \/ \E p \in Procs, t \in RendersTmplArgs, l \in RendersLayoutArgs :
          NotLoading /\ ExecuteTemplateCall(p, t, l)
    \/ \E p \in Procs, t \in RendersTmplArgs, l \in RendersLayoutArgs :
          NotLoading /\ TemplateStringCall(p, t, l)
    \/ \E p \in Procs : RenderStep(p)

SpecRenders == InitRenders /\ [][NextRenders]_vars

(***************************************************************************)
(* Function maps.  Before New the process may have registered the global   *)
(* function f; the engine is given the function f by Funcs, by LayoutFuncs, *)
(* by both or by neither; after New the process may register the global    *)
(* function g.  fn.html and layouts/lf.html call f, g.html and             *)
(* layouts/lg.html call g.                                                 *)
(***************************************************************************)
\* Register(funcMap): the entries of funcMap are added to the process-wide map
Register(funcMap) ==
    /\ pc["p1"] = "idle"
    /\ \A x \in DOMAIN funcMap : x \notin DOMAIN builtins
    /\ builtins' = addFuncs(builtins, funcMap)
    /\ UNCHANGED <<mfs, rd, fsys, cfg, engineVars, readVars>>

FuncSources ==
    {{IdOf("fn.html"), IdOf("layouts/lf.html")},
     {IdOf("footer.html"), IdOf("layouts/lg.html")},
     {IdOf("footer.html"), IdOf("g.html")}}

RegisteredBeforeNew ==
    {builtinsAtStart, addFuncs(builtinsAtStart, [x \in {"f"} |-> "global"])}

RegisteredAfterNew == [x \in {"g"} |-> "late"]

FuncsOptions == {EmptyMap, [x \in {"f"} |-> "engine"]}

LayoutFuncsOptions == {EmptyMap, [x \in {"f"} |-> "layout"]}

FuncTmplArgs == {"fn", "footer"}

FuncLayoutArgs == {"", "lf", "lg"}

InitFuncs ==
    /\ fsys \in FuncSources
    /\ EngineNew
    /\ ReadIdle
    /\ MemIdle
    /\ \E before \in RegisteredBeforeNew, tf \in FuncsOptions, lf \in LayoutFuncsOptions :
          /\ builtins = before
          /\ cfg = [DefaultConfig EXCEPT !.rootFuncs = translateFuncs(before),
                                         !.tmplFuncs = tf, !.layoutFuncs = lf]

NextFuncs ==
    \/ Register(RegisteredAfterNew)
    \/ LoadCall("p1", FALSE)
    \/ Lock("p1")
    \/ ClearTemplates("p1")
    \/ ClearLayouts("p1")
    \/ CollectFrom("p1", {fsys})
    \/ ContentStep("p1")
    \/ LayoutStep("p1")
    \/ Unlock("p1")
    \/ \E t \in FuncTmplArgs, l \in FuncLayoutArgs : ExecuteTemplateCall("p1", t, l)
    \/ RenderStep("p1")

SpecFuncs == InitFuncs /\ [][NextFuncs]_vars

(***************************************************************************)
(* Classification.  SpecClassify sets the delimiters with Delims and loads *)
(* a source of files written with either pair of delimiters: bare          *)
(* fragments, an empty file, files with block definitions (in the text or  *)
(* in a comment) and layouts.                                              *)
(***************************************************************************)
MaxUnits == 2

ClassifyPool ==
    {IdOf(f) : f \in {"bc.html", "blocks.html", "c.html", "cdef.html", "empty.html",
                      "explicit.html", "layouts/a.html", "layouts/sq.html",
                      "layouts/sqt.html"}}

ClassifySources == {S \in SUBSET ClassifyPool : S # {} /\ Cardinality(S) <= MaxUnits}

DelimPairs == {<<"{{", "}}">>, <<"[[", "]]">>}

Delims(left, right) ==
    /\ pc["p1"] = "idle"
    /\ cfg' = [cfg EXCEPT !.left = left, !.right = right]
    /\ UNCHANGED <<mfs, rd, fsys, builtins, engineVars, readVars>>

InitClassify ==
    /\ fsys \in ClassifySources
    /\ EngineInit
    /\ cfg = DefaultConfig
    /\ ReadIdle
    /\ MemIdle

NextClassify ==
    \/ \E d \in DelimPairs : Delims(d[1], d[2])
    \/ LoadCall("p1", FALSE)
    \/ Lock("p1")
    \/ ClearTemplates("p1")
    \/ ClearLayouts("p1")
    \/ CollectFrom("p1", {fsys})
    \/ ContentStep("p1")
    \/ LayoutStep("p1")
    \/ Unlock("p1")

SpecClassify == InitClassify /\ [][NextClassify]_vars

(***************************************************************************)
(* MemoryFileSystem: the in-memory Source.  files maps a registered name   *)
(* to its memoryTemplateFile; Open hands out that one shared file after    *)
(* resetting its offset, Read advances the offset.  SpecMem registers      *)
(* files and then lets two callers (the workers of two engines that share  *)
(* the file system) open, list, walk and read it.                          *)
(***************************************************************************)
MemNames == {"index.html", "layouts/main.html", ".hidden/x.html"}

MemContents == {<<"x">>, <<"x", "y">>}

OpenNames == MemNames \cup {".", "/", "", "layouts", "layouts/", ".hidden", "nope.html"}

ReadDirNames == {".", "layouts", ".hidden"}

MaxCalls == 2

RECURSIVE TrimLeftDotSlash(_)
TrimLeftDotSlash(s) ==
    IF Len(s) > 0 /\ SubSeq(s, 1, 1) \in {".", "/"}
    THEN TrimLeftDotSlash(SubSeq(s, 2, Len(s)))
    ELSE s

\* strings.SplitN(s, "/", 2)[0]
RECURSIVE firstPart(_, _)
firstPart(s, i) ==
    IF i > Len(s) THEN s
    ELSE IF SubSeq(s, i, i) = "/" THEN SubSeq(s, 1, i - 1)
    ELSE firstPart(s, i + 1)

dirPrefixOf(name) == IF name # "" /\ ~HasSuffix(name, "/") THEN name \o "/" ELSE name

isDir(F, name) == \E path \in DOMAIN F : HasPrefix(path, dirPrefixOf(name))

memoryDir(name) == [kind |-> "dir", name |-> name]

Open(F, name) ==
    IF name = "." \/ name = "/" THEN memoryDir(".")
    ELSE IF isDir(F, name) THEN memoryDir(name)
    ELSE IF name \in DOMAIN F THEN [kind |-> "file", name |-> name]
    ELSE [kind |-> "ErrNotExist", name |-> name]

\* the loop of ReadDir over files, in whatever order the map yields them
RECURSIVE readDirLoop(_, _, _, _, _)
readDirLoop(F, todo, prefix, seen, entries) ==
    IF todo = {} THEN entries
    ELSE LET path == CHOOSE x \in todo : TRUE
             rest == todo \ {path}
             entryName == firstPart(TrimPrefix(path, prefix), 1)
             fullPath == prefix \o entryName
         IN IF ~HasPrefix(path, prefix) \/ entryName \in seen
            THEN readDirLoop(F, rest, prefix, seen, entries)
            ELSE readDirLoop(F, rest, prefix, seen \cup {entryName},
                             Append(entries, [name |-> entryName, isDir |-> isDir(F, fullPath)]))

ReadDir(F, name) == readDirLoop(F, DOMAIN F, dirPrefixOf(TrimLeftDotSlash(name)), {}, <<>>)

\* path.Join of a directory and the name of one of its entries
pathJoin(dir, name) ==
    IF name = "" THEN dir ELSE IF dir = "." THEN name ELSE dir \o "/" \o name

\* fs.WalkDir from name: the paths its callback is handed as files
RECURSIVE walkDir(_, _)
walkDir(F, name) ==
    LET list == ReadDir(F, name)
        under(i) == IF list[i].isDir THEN walkDir(F, pathJoin(name, list[i].name))
                    ELSE {pathJoin(name, list[i].name)}
    IN UNION {under(i) : i \in DOMAIN list}

ParseTemplate(name, contents) ==
    /\ \A r \in Readers : rd[r] = NoRd
    /\ mfs' = MapSet(mfs, name, [contents |-> contents, offset |-> 0])
    /\ UNCHANGED <<rd, fsys, cfg, builtins, engineVars, readVars>>

\* file.reset() of the file Open returns
reset(F, o) ==
    IF o.kind = "file" THEN [F EXCEPT ![o.name].offset = 0] ELSE F

OpenCall(r, name) ==
    /\ rd[r].pc = "idle"
    /\ rd[r].calls < MaxCalls
    /\ LET o == Open(mfs, name)
       IN /\ mfs' = reset(mfs, o)
          /\ rd' = [rd EXCEPT ![r] = [NoRd EXCEPT !.op = "Open", !.name = name,
                                          !.kind = o.kind, !.calls = rd[r].calls + 1]]
    /\ UNCHANGED <<fsys, cfg, builtins, engineVars, readVars>>

ReadDirCall(r, name) ==
    /\ rd[r].pc = "idle"
    /\ rd[r].calls < MaxCalls
    /\ rd' = [rd EXCEPT ![r] = [NoRd EXCEPT !.op = "ReadDir", !.name = name,
                                    !.entries = ReadDir(mfs, name),
                                    !.calls = rd[r].calls + 1]]
    /\ UNCHANGED <<mfs, fsys, cfg, builtins, engineVars, readVars>>

\* fs.WalkDir(fsys, ".", ...) as readFiles calls it
WalkDirCall(r) ==
    /\ rd[r].pc = "idle"
    /\ rd[r].calls < MaxCalls
    /\ rd' = [rd EXCEPT ![r] = [NoRd EXCEPT !.op = "WalkDir", !.name = ".",
                                    !.walked = walkDir(mfs, "."),
                                    !.calls = rd[r].calls + 1]]
    /\ UNCHANGED <<mfs, fsys, cfg, builtins, engineVars, readVars>>

\* fs.ReadFile(fsys, name): Open, then Read until io.EOF
ReadFileOpen(r, name) ==
    /\ rd[r].pc = "idle"
    /\ rd[r].calls < MaxCalls
    /\ LET o == Open(mfs, name)
       IN /\ mfs' = reset(mfs, o)
          /\ rd' = [rd EXCEPT ![r] = [NoRd EXCEPT !.op = "ReadFile", !.name = name,
                                          !.kind = o.kind,
                                          !.pc = IF o.kind = "file" THEN "read" ELSE "idle",
                                          !.calls = rd[r].calls + 1]]
    /\ UNCHANGED <<fsys, cfg, builtins, engineVars, readVars>>

\* one memoryTemplateFile.Read into the free part of ReadFile's buffer, whose
\* capacity starts at the file's size plus one and grows when it is full
ReadFileRead(r) ==
    /\ rd[r].pc = "read"
    /\ LET f == mfs[rd[r].name]
           size == Len(f.contents)
           room == IF Len(rd[r].data) < size + 1 THEN size + 1 - Len(rd[r].data) ELSE 1
           n == IF size - f.offset < room THEN size - f.offset ELSE room
       IN IF f.offset >= size
          THEN /\ rd' = [rd EXCEPT ![r].pc = "idle"]
               /\ mfs' = mfs
          ELSE /\ rd' = [rd EXCEPT ![r].data = @ \o SubSeq(f.contents, f.offset + 1, f.offset + n)]
               /\ mfs' = [mfs EXCEPT ![rd[r].name].offset = @ + n]
    /\ UNCHANGED <<fsys, cfg, builtins, engineVars, readVars>>

InitMem ==
    /\ fsys = {}
    /\ EngineInit
    /\ cfg = DefaultConfig
    /\ ReadIdle
    /\ MemIdle

NextMem ==
    \/ \E name \in MemNames, contents \in MemContents : ParseTemplate(name, contents)
    \/ \E name \in OpenNames : OpenCall("r1", name)
    \/ \E name \in ReadDirNames : ReadDirCall("r1", name)
    \/ WalkDirCall("r1")
    \/ \E r \in Readers, name \in MemNames : ReadFileOpen(r, name)
    \/ \E r \in Readers : ReadFileRead(r)

SpecMem == InitMem /\ [][NextMem]_vars


(***************************************************************************)
(* Properties of Load (specification Spec).  "Load has returned" is the    *)
(* state pc = "unlock": load has returned ld.err, v.mu is still held.      *)
(***************************************************************************)
LoadReturned == pc["p1"] = "unlock"

LoadFailed == LoadReturned /\ ld.err # NoErr

LoadSucceeded == LoadReturned /\ ld.err = NoErr

\* the units of the files the returned Load collected, and their names
CandidateUnits ==
    [cfgv \in Configs |->
        [f \in PathOf(FileIds) |-> FileUnit(cfgv, f, trimSpace(Candidates[IdOf(f)].text))]]

LoadedUnits == [f \in ld.got |-> CandidateUnits[cfg][f]]

LoadedNames(kind) ==
    {LoadedUnits[f].name : f \in {g \in ld.got : LoadedUnits[g].kind = kind}}

LoadedTexts(kind, name) ==
    {LoadedUnits[f].text :
        f \in {g \in ld.got : LoadedUnits[g].kind = kind /\ LoadedUnits[g].name = name}}

\* every logical name a layout / content file of the candidates can get
AllNames(kind) ==
    {CandidateUnits[x[1]][x[2]].name :
        x \in {y \in Configs \X PathOf(FileIds) : CandidateUnits[y[1]][y[2]].kind = kind}}

\* C1 (as claimed): a Load that fails after a successful one leaves Templates and
\* Layouts exactly as the last successful Load left them.
C1_FailedLoadKeepsRegistries ==
    (LoadFailed /\ committed.ok) =>
        (Templates = committed.T /\ Layouts = committed.L)

\* C2 (as claimed): whenever Load returns an error both registries are empty.
C2_FailedLoadLeavesEmpty ==
    LoadFailed => (Templates = EmptyMap /\ Layouts = EmptyMap)

\* C3 (as claimed): after a successful Load, for all layout names L and content
\* names C, L++C is a key of Layouts iff a layout file named L and a content file
\* named C were collected, its entry is composed from that layout and that
\* content, and there are (number of layouts) x (number of contents) entries.
C3_FullCrossProduct ==
    LoadSucceeded =>
        /\ \A L \in AllNames("layout"), C \in AllNames("content") :
              /\ (L \o C \in DOMAIN Layouts) <=>
                    (L \in LoadedNames("layout") /\ C \in LoadedNames("content"))
              /\ (L \in LoadedNames("layout") /\ C \in LoadedNames("content")) =>
                    \E lt \in LoadedTexts("layout", L), ct \in LoadedTexts("content", C) :
                        Layouts[L \o C] = LayoutTmpl(L, lt, ct, layoutSetFuncs)
        /\ Cardinality(DOMAIN Layouts) =
              Cardinality(LoadedNames("layout")) * Cardinality(LoadedNames("content"))

LoadedPairs == LoadedNames("layout") \X LoadedNames("content")

ConcatInjective ==
    \A x, y \in LoadedPairs : (x[1] \o x[2] = y[1] \o y[2]) => x = y

\* C3 (amended): after a successful Load the keys of Layouts are exactly the
\* concatenations L++C of a collected layout's and a collected content's name,
\* every entry is composed from such a pair that concatenates to its key, and
\* when no two pairs concatenate to the same key every pair has its own entry
\* and the entries number (layouts) x (contents).
C3_CrossProductUpToCollisions ==
    LoadSucceeded =>
        /\ DOMAIN Layouts = {x[1] \o x[2] : x \in LoadedPairs}
        /\ \A K \in DOMAIN Layouts : \E x \in LoadedPairs :
              /\ x[1] \o x[2] = K
              /\ \E lt \in LoadedTexts("layout", x[1]), ct \in LoadedTexts("content", x[2]) :
                    Layouts[K] = LayoutTmpl(x[1], lt, ct, layoutSetFuncs)
        /\ ConcatInjective =>
              /\ Cardinality(DOMAIN Layouts) =
                    Cardinality(LoadedNames("layout")) * Cardinality(LoadedNames("content"))
              /\ \A x \in LoadedPairs :
                    \E lt \in LoadedTexts("layout", x[1]), ct \in LoadedTexts("content", x[2]) :
                        Layouts[x[1] \o x[2]] = LayoutTmpl(x[1], lt, ct, layoutSetFuncs)

\* a successful Load that composed two layouts with two contents, two pairs of
\* which share a key
C3_Witness ==
    /\ LoadSucceeded
    /\ Cardinality(LoadedPairs) = 4
    /\ ~ConcatInjective

\* C8: Load on a source with no regular file returns "no template files found"
\* and leaves both registries empty, whatever they held before.
C8_NoFilesFound ==
    (LoadReturned /\ ~call["p1"].cancellable /\ ld.nofiles) =>
        /\ ld.err = Err("no template files found", "")
        /\ Templates = EmptyMap
        /\ Layouts = EmptyMap

\* a Load of an empty source has returned on an engine whose last successful Load
\* had filled both registries
C8_Witness ==
    /\ LoadReturned /\ ~call["p1"].cancellable /\ ld.nofiles
    /\ committed.ok /\ committed.T # EmptyMap /\ committed.L # EmptyMap

\* C9 (as claimed): when readFiles collected files but none of them has the
\* template extension or a registered parser, Load fails with "no template files
\* found".
C9_NoMatchingFiles ==
    (LoadReturned /\ ld.got # {} /\ \A f \in ld.got : LoadedUnits[f].kind = "skip") =>
        ld.err = Err("no template files found", "")

Rendered == pc["p1"] = "idle" /\ res["p1"].done

Loaded == committed.ok /\ Templates = committed.T /\ Layouts = committed.L

\* the layout a render is made with is none, or one that a Layouts entry is built on
LayoutArgExists(c) ==
    \/ effectiveLayout(cfg, c) = ""
    \/ \E K \in DOMAIN Layouts : Layouts[K].layout = layoutArgName(effectiveLayout(cfg, c))

\* C10 (as claimed): on a loaded engine, with a layout argument that is empty,
\* names an existing layout or is replaced by an existing default layout,
\* rendering a content name N that no registry holds returns ErrNotExist with
\* Name = N.
C10_NotExistNamesContent ==
    (Rendered /\ Loaded /\ LayoutArgExists(call["p1"])
        /\ call["p1"].tmplName \notin DOMAIN Templates) =>
        res["p1"].err = Err("ErrNotExist", call["p1"].tmplName)

\* C11 (as claimed): on a loaded engine TemplateString of a content the
\* registries hold, with a layout that exists, resolves to what ExecuteTemplate
\* (auto-reload off) resolves to for the same arguments, the default layout
\* standing in for an empty layoutName.
C11_TemplateStringResolvesAsExecute ==
    (Rendered /\ Loaded /\ call["p1"].op = "TemplateString"
        /\ call["p1"].tmplName \in DOMAIN Templates
        /\ LayoutArgExists([call["p1"] EXCEPT !.op = "ExecuteTemplate"])) =>
        LET asExecute == executeTemplate(Templates, Layouts, call["p1"].tmplName,
                            effectiveLayout(cfg, [call["p1"] EXCEPT !.op = "ExecuteTemplate"]))
        IN  /\ res["p1"].err = asExecute.err
            /\ res["p1"].tmpl = asExecute.tmpl

\* the source path f without its root prefix and without its own extension
StrippedName(f) == TrimSuffix(TrimPrefix(trimDir(f, rootDir), "/"), pathExt(f))

\* C19 (as claimed): after a successful Load every key of Templates is the path
\* of a collected file without the root prefix and without that file's extension,
\* and every key of Layouts is the concatenation of two such names (the layout's
\* without the layout directory).
C19_KeysAreStrippedNames ==
    LoadSucceeded =>
        /\ \A K \in DOMAIN Templates : \E f \in ld.got : K = StrippedName(f)
        /\ \A K \in DOMAIN Layouts : \E f, g \in ld.got :
              K = trimDir(StrippedName(f), layoutDir) \o StrippedName(g)

(***************************************************************************)
(* Properties of readFiles (specification SpecRead).                       *)
(***************************************************************************)
Launched == DOMAIN wpc

\* what readFiles returned is one of the results Spec takes it to return
ReadFilesSummarySound ==
    ret.returned =>
        \E r \in ReadFilesResults(fsys, call["p1"].cancellable) \cup
                 ReadFilesResults(fsys, ctx.fired) :
            r.files = ret.files /\ r.err = ret.err

\* C5 (as claimed): when the caller's context fired during collection and a
\* launched worker skipped storing its file, LoadWithContext returns a non-nil
\* error: load never composes templates from the partial mapping.
C5_CancelledLoadFails ==
    (LoadReturned /\ ctx.fired /\ \E i \in Launched : wpc[i] = "skipped") =>
        LoadFailed

\* C6 (as claimed): readFiles has not returned while a worker it launched is
\* still running.
C6_ReturnsAfterWorkers ==
    ret.returned => \A i \in Launched : wpc[i] \in Terminal

\* C7 (as claimed): when a worker failed to read its file and the context did not
\* fire, readFiles returns the first error delivered to errChan and no mapping.
C7_FirstWorkerError ==
    (ret.returned /\ ~ctx.fired /\ \E i \in Launched : wpc[i] = "failed") =>
        /\ ret.err = errChan.first
        /\ ret.files = EmptyMap

\* C7 (amended): when a worker failed to read its file, the context did not fire
\* and the walk itself did not fail, readFiles returns the first error delivered
\* to errChan and no mapping; and an unfinished worker can always take its step.
C7_FirstWorkerErrorAfterWalk ==
    /\ (ret.returned /\ ~ctx.fired /\ ret.err.kind # "walk"
          /\ \E i \in Launched : wpc[i] = "failed") =>
            /\ ret.err = errChan.first
            /\ ret.err.kind = "read"
            /\ ret.files = EmptyMap
    /\ \A i \in Launched :
          /\ wpc[i] = "read" => ENABLED WorkerRead(i)
          /\ wpc[i] = "check" => ENABLED WorkerCheck(i)
          /\ wpc[i] = "store" => ENABLED WorkerStore(i)

\* readFiles has returned the first of two workers' errors
C7_Witness ==
    /\ ret.returned /\ ~ctx.fired /\ ret.err.kind = "read"
    /\ Cardinality({i \in Launched : wpc[i] = "failed"}) >= 2
    /\ ret.err = errChan.first

(***************************************************************************)
(* Properties of a render that overlaps a Load (specification SpecConc).   *)
(***************************************************************************)
\* C4 (as claimed): when a Load that started from complete registries has
\* succeeded and an ExecuteTemplate looked its template up while that Load was
\* running, the render got what the old registries or the new ones hold for its
\* arguments, and did not fail on the map access.
C4_RenderSeesCompleteRegistries ==
    (LoadSucceeded /\ ld.fromGood /\ ld.rendered /\ res["p2"].done) =>
        LET layoutName == effectiveLayout(cfg, call["p2"])
            new == executeTemplate(Templates, Layouts, call["p2"].tmplName, layoutName)
        IN  /\ res["p2"].err.kind # "fatal"
            /\ res["p2"].tmpl \in {res["p2"].pre, new.tmpl}

(***************************************************************************)
(* Properties of repeated Loads (specification SpecReload).                *)
(***************************************************************************)
\* C13 (as claimed): a successful Load that follows a successful Load of the
\* same, unchanged source leaves registries with the same keys and, under every
\* key, a template composed from the same source texts.
C13_ReloadIsDeterministic ==
    (LoadSucceeded /\ committed.ok) =>
        /\ DOMAIN Templates = DOMAIN committed.T
        /\ DOMAIN Layouts = DOMAIN committed.L
        /\ \A K \in DOMAIN Templates : Templates[K] = committed.T[K]
        /\ \A K \in DOMAIN Layouts : Layouts[K] = committed.L[K]

(***************************************************************************)
(* Properties of renders (specification SpecRender).  A Load error is one   *)
(* that is neither ErrNotExist nor an error of tmpl.Execute.               *)
(***************************************************************************)
RenderErrKinds == {"ErrNotExist", "exec", "fatal"}

LoadsExpected(c) == IF cfg.reload /\ c.op = "ExecuteTemplate" THEN 1 ELSE 0

\* C12: with auto-reload on, ExecuteTemplate makes exactly one Load, and makes
\* it before its lookup: once the lookup is done the call has made one Load,
\* which succeeded and whose registries the lookup reads, and it makes no
\* further one however many partial calls the execution runs; TemplateString
\* (and an engine without auto-reload) makes none.  When the Load fails the
\* call returns the Load's error with no lookup done and nothing written.
C12_ReloadOncePerExecuteTemplate ==
    LET c == call["p1"]
        r == res["p1"]
    IN  c.op \in {"ExecuteTemplate", "TemplateString"} =>
            /\ c.loads <= LoadsExpected(c)
            /\ r.started =>
                  /\ c.loads = LoadsExpected(c)
                  /\ pc["p1"] \in {"exec", "idle"}
                  /\ LoadsExpected(c) = 1 => committed.ok
            /\ (r.done /\ r.err # NoErr /\ r.err.kind \notin RenderErrKinds) =>
                  /\ c.loads = 1
                  /\ ~r.started
                  /\ r.tmpl = NilTmpl
                  /\ r.out = <<>>

\* a reloading ExecuteTemplate that has run two partial calls
C12_Witness ==
    LET c == call["p1"]
        r == res["p1"]
    IN  /\ cfg.reload /\ c.op = "ExecuteTemplate" /\ r.done
        /\ r.err = NoErr /\ Len(r.partials) >= 2 /\ c.loads = 1

\* the text of file f as its author wrote it, and as load holds it when it
\* decides on the wrapping: trimmed by readFiles, pre-processed, comments removed
RawText(f) == Candidates[IdOf(f)].text

NormalisedText(f) ==
    LET data == trimSpace(RawText(f))
    IN  removeComments(IF extensionHandler(cfg, pathExt(f)) = "markdown"
                       THEN markdownRun(data) ELSE data)

IsLiteral(text) == \A i \in 1..Len(text) : calledFunc(text[i]) = "" /\ text[i] # "D"

\* the content files of the source without a block definition of their own and
\* made of literal text only, that a render of name t is a render of
LiteralContentFiles(t) ==
    {f \in PathOf(fsys) :
        /\ FileUnit(cfg, f, trimSpace(RawText(f))).kind = "content"
        /\ tmplNameOf(f) = TrimSuffix(t, extension)
        /\ ~hasDefine(cfg.left, NormalisedText(f))
        /\ IsLiteral(NormalisedText(f))}

StandaloneRender ==
    /\ Rendered /\ Loaded
    /\ call["p1"].op \in {"ExecuteTemplate", "TemplateString"}
    /\ effectiveLayout(cfg, call["p1"]) = ""

\* C14 (as claimed): a content file without a block definition of its own,
\* rendered without a layout, gives as the output of the content block (what
\* is written between the two spaces of the root template) the entire text of
\* the file as its author wrote it.
C14_RendersEntireText ==
    StandaloneRender =>
        \A f \in LiteralContentFiles(call["p1"].tmplName) :
            /\ res["p1"].err = NoErr
            /\ res["p1"].out = <<"WS">> \o RawText(f) \o <<"WS">>

\* C14 (amended): such a render gives as the output of the content block the
\* file's text as load holds it after the collector has trimmed the leading
\* and trailing whitespace, the pre-processor of its extension has run and the
\* HTML comments are removed; the wrapping adds nothing to that text and
\* removes nothing from it.
C14_RendersNormalisedText ==
    StandaloneRender =>
        \A f \in LiteralContentFiles(call["p1"].tmplName) :
            /\ res["p1"].err = NoErr
            /\ Templates[tmplNameOf(f)].contentText =
                   <<"DEFC">> \o NormalisedText(f) \o <<"END">>
            /\ res["p1"].out = <<"WS">> \o NormalisedText(f) \o <<"WS">>

\* c.html, whose text has whitespace around it and a comment in it, rendered
\* without a layout
C14_Witness ==
    /\ StandaloneRender
    /\ "c.html" \in LiteralContentFiles(call["p1"].tmplName)
    /\ NormalisedText("c.html") # RawText("c.html")
    /\ res["p1"].out = <<"WS", "c", "WS">>

HasYield(text) == \E i \in 1..Len(text) : text[i] \in {"Y", "YT", "YA"}

\* the text with each yield written as the {{ template "content" X }} of the
\* same argument X
AsTemplateContent(text) ==
    [i \in 1..Len(text) |->
        CASE text[i] \in {"Y", "YT"} -> "TC"
          [] text[i] = "YA"          -> "TCA"
          [] OTHER                   -> text[i]]

Range(seq) == {seq[i] : i \in 1..Len(seq)}

\* C15: after a successful Load, every collected file written with a yield
\* directive (with or without trim markers, with the argument . or .Arg) is
\* a layout; the layout text stored in every Layouts entry built on it holds
\* no yield and is the file's text with {{ template "content" X }}, of the same
\* argument X, in the place of each yield; and such an entry executes to the
\* same output as the entry of the same content built on a layout file that
\* was written with {{ template "content" X }} in the first place.
C15_YieldIsTemplateContent ==
    LoadSucceeded =>
        \A f \in {g \in ld.got : HasYield(NormalisedText(g))} :
            LET unit == FileUnit(cfg, f, trimSpace(RawText(f)))
            IN  /\ unit.kind = "layout"
                /\ \A c \in DOMAIN Templates :
                      LET K == makeLayoutTemplateName(c, unit.name)
                      IN  /\ K \in DOMAIN Layouts
                          /\ ~HasYield(Layouts[K].layoutText)
                          /\ Layouts[K].layoutText = AsTemplateContent(NormalisedText(f))
                          /\ \A K2 \in DOMAIN Layouts :
                                (/\ Layouts[K2].contentText = Layouts[K].contentText
                                 /\ \E g \in ld.got :
                                       /\ ~HasYield(NormalisedText(g))
                                       /\ NormalisedText(g) = AsTemplateContent(NormalisedText(f))
                                       /\ FileUnit(cfg, g, trimSpace(RawText(g))).name
                                              = Layouts[K2].layout)
                                => Execute(Layouts[K2], ".") = Execute(Layouts[K], ".")

\* index rendered in layouts/main.html, written with {{- yield . -}} and
\* {{ yield .Arg }}: the content block was executed with each argument
C15_Witness ==
    /\ Rendered /\ Loaded
    /\ res["p1"].err = NoErr
    /\ res["p1"].tmpl.layout = "main"
    /\ HasYield(NormalisedText("layouts/main.html"))
    /\ "layouts/plain.html" \in PathOf(fsys)
    /\ {"D.", "D.Arg"} \subseteq Range(res["p1"].out)

\* what the items of an execution write when each call of partial N is
\* replaced by the whole output of Templates[N], itself taken the same way;
\* the error of the first call whose N is not in Templates
RECURSIVE WithPartials(_)
WithPartials(items) ==
    IF items = <<>> THEN [err |-> NoErr, out |-> <<>>]
    ELSE IF ~IsPartial(Head(items))
    THEN LET rest == WithPartials(Tail(items))
         IN  [err |-> rest.err, out |-> <<Head(items)>> \o rest.out]
    ELSE LET N == TrimPrefix(Head(items), "P:")
         IN  IF N \notin DOMAIN Templates
             THEN [err |-> Err("ErrNotExist", N), out |-> <<>>]
             ELSE LET inner == WithPartials(Execute(Templates[N], ".").items)
                      rest  == WithPartials(Tail(items))
                  IN  IF inner.err # NoErr THEN [err |-> inner.err, out |-> <<>>]
                      ELSE [err |-> rest.err, out |-> inner.out \o rest.out]

\* C16: every call of partial N that a render has made was resolved to
\* Templates[N], the content template, never to a Layouts entry, also on an
\* engine with a default layout and when the call is in a layout's text; a
\* finished render has written the output of Templates[N] in the place of
\* each call; and a render that reaches a call whose N is not in Templates
\* fails, with ErrNotExist of N.
C16_PartialExecutesTemplates ==
    LET r == res["p1"]
    IN  /\ \A i \in 1..Len(r.partials) :
              /\ r.partials[i].name \in DOMAIN Templates
              /\ r.partials[i].tmpl = Templates[r.partials[i].name]
              /\ r.partials[i].tmpl.layout = "root"
        /\ (Rendered /\ r.started /\ r.tmpl # NilTmpl /\ r.err.kind # "exec") =>
              LET whole == WithPartials(Execute(r.tmpl, ".").items)
              IN  /\ r.err = whole.err
                  /\ r.err = NoErr => r.out = whole.out

\* ExecuteTemplate("index", "") on an engine whose default layout is main:
\* the layout's own call of partial "footer" and the calls in index are done
C16_Witness ==
    LET r == res["p1"]
    IN  /\ Rendered /\ r.err = NoErr
        /\ cfg.defaultLayoutName = "main"
        /\ call["p1"].op = "ExecuteTemplate" /\ call["p1"].layoutName = ""
        /\ r.tmpl.layout = "main"
        /\ \E i \in 1..Len(r.tmpl.layoutText) : r.tmpl.layoutText[i] = "P:footer"
        /\ Len(r.partials) >= 3
        /\ makeLayoutTemplateName("footer", "main") \in DOMAIN Layouts

\* C20 (as claimed): on a loaded engine a render whose layoutName carries the
\* layout directory, with or without the extension ("layouts/main",
\* "layouts/main.html"), resolves to the template that the bare name "main"
\* resolves to.
C20_LayoutPrefixStripped ==
    LET c      == call["p1"]
        asBare == executeTemplate(Templates, Layouts, c.tmplName, "main")
    IN  (/\ Rendered /\ Loaded
         /\ c.op \in {"ExecuteTemplate", "TemplateString"}
         /\ c.layoutName \in {"layouts/main", "layouts/main.html"}
         /\ asBare.err = NoErr) =>
            /\ res["p1"].tmpl = asBare.tmpl
            /\ res["p1"].err # Err("ErrNotExist", TrimSuffix(c.layoutName, extension))

(***************************************************************************)
(* Properties of the function maps (specification SpecFuncs).              *)
(***************************************************************************)
\* the tiers that define a name, and its definition in the latest of them in
\* the order global < engine-level (Funcs) < layout-only (LayoutFuncs)
TiersOf(name) ==
    {t \in {"global", "engine", "layout"} :
        name \in DOMAIN (CASE t = "global" -> cfg.rootFuncs
                           [] t = "engine" -> cfg.tmplFuncs
                           [] t = "layout" -> cfg.layoutFuncs)}

LatestTier(name) ==
    IF name \in DOMAIN cfg.layoutFuncs THEN cfg.layoutFuncs[name]
    ELSE IF name \in DOMAIN cfg.tmplFuncs THEN cfg.tmplFuncs[name]
    ELSE cfg.rootFuncs[name]

\* C17 (as claimed): in every layout-combined template a function name that
\* more than one tier defines has, at execution, the definition of the latest
\* tier in the order global < Funcs < LayoutFuncs, and a finished render in a
\* layout that calls the function f has written the output of that definition.
C17_LayoutFuncsOverride ==
    /\ \A K \in DOMAIN Layouts : \A name \in DOMAIN Layouts[K].funcs :
          Cardinality(TiersOf(name)) > 1 => Layouts[K].funcs[name] = LatestTier(name)
    /\ (/\ Rendered /\ res["p1"].err = NoErr
        /\ res["p1"].tmpl.layout = "lf"
        /\ Cardinality(TiersOf("f")) > 1) =>
            "f@" \o LatestTier("f") \in Range(res["p1"].out)

\* C18 (as claimed): a function registered globally after New is in no
\* template of the engine, whether built by the content pass or by the layout
\* pass, and no finished render has executed it.
C18_SnapshotAtConstruction ==
    /\ \A name \in DOMAIN builtins \ DOMAIN cfg.rootFuncs :
          /\ \A K \in DOMAIN Templates : name \notin DOMAIN Templates[K].funcs
          /\ \A K \in DOMAIN Layouts : name \notin DOMAIN Layouts[K].funcs
    /\ Rendered => "g@late" \notin Range(res["p1"].out)

(***************************************************************************)
(* Properties of concurrent Loads (specification SpecLoads).               *)
(***************************************************************************)
\* p is between v.mu.Lock() and the deferred v.mu.Unlock()
InSection(p) == pc[p] \in {"clearT", "clearL", "read", "content", "layout", "unlock"}

\* the registries that the load whose locals are ld builds when it succeeds
BuiltTemplates ==
    [n \in DOMAIN ld.contentTemplates |->
        ContentTmpl(ld.contentTemplates[n], contentSetFuncs)]

BuiltLayoutKeys ==
    {makeLayoutTemplateName(c, l) :
        l \in DOMAIN ld.layoutTemplates, c \in DOMAIN ld.contentTemplates}

BuiltFrom(K) ==
    {LayoutTmpl(l, ld.layoutTemplates[l], ld.contentTemplates[c], layoutSetFuncs) :
        <<l, c>> \in {x \in (DOMAIN ld.layoutTemplates) \X (DOMAIN ld.contentTemplates) :
                        makeLayoutTemplateName(x[2], x[1]) = K}}

LoadsExclusive ==
    /\ Cardinality({p \in Procs : InSection(p)}) <= 1
    /\ \A p \in Procs : InSection(p) => mu = p
    /\ \A p \in Procs : (pc[p] = "unlock" /\ ld.err = NoErr) =>
          /\ Templates = BuiltTemplates
          /\ DOMAIN Layouts = BuiltLayoutKeys
          /\ \A K \in DOMAIN Layouts : Layouts[K] \in BuiltFrom(K)

RegistriesWrittenByHolder ==
    (Templates' # Templates \/ Layouts' # Layouts) =>
        /\ mu \in Procs /\ InSection(mu)
        /\ mu' = mu
        /\ \A q \in Procs \ {mu} : pc'[q] = pc[q]

\* C21: at most one Load is between the lock and the unlock of an engine at
\* any time, and it holds v.mu; the registries change only in steps of that
\* Load; and when a Load returns nil the registries are exactly what that
\* Load built from the files it collected, with nothing of a Load that was
\* called concurrently - so after all Loads have returned the registries are
\* those of the Load that ran last.
C21_LoadsSerialize == []LoadsExclusive /\ [][RegistriesWrittenByHolder]_vars

\* a Load has succeeded on one source, and now one goroutine is rebuilding
\* from another source while a Load called on the other goroutine waits
C21_Witness ==
    /\ committed.ok
    /\ pc["p1"] = "lock"
    /\ pc["p2"] = "unlock" /\ ld.err = NoErr
    /\ Templates # committed.T

(***************************************************************************)
(* Properties of the MemoryFileSystem (specification SpecMem).             *)
(***************************************************************************)
\* the directories and the immediate children the registered names spell out
NamesADir(F, name) ==
    name \in {".", "/"} \/ \E f \in DOMAIN F : HasPrefix(f, name \o "/")

ChildrenOf(F, name) ==
    LET under == IF name = "." THEN "" ELSE name \o "/"
    IN {firstPart(TrimPrefix(f, under), 1) : f \in {g \in DOMAIN F : HasPrefix(g, under)}}

\* C22 (as claimed): Open(name) returns a directory when name is the root or
\* some registered name has name + "/" as a prefix, the registered file when
\* name is registered, and fails with not-exist exactly when neither holds;
\* ReadDir lists each immediate child of a directory exactly once, so the walk
\* from the root is handed every registered file.
C22_OpenReadDirWalk ==
    LET c == rd["r1"]
    IN /\ c.op = "Open" =>
            /\ NamesADir(mfs, c.name) => c.kind = "dir"
            /\ (c.name \in DOMAIN mfs /\ ~NamesADir(mfs, c.name)) => c.kind = "file"
            /\ c.kind = "ErrNotExist" <=> (~NamesADir(mfs, c.name) /\ c.name \notin DOMAIN mfs)
       /\ (c.op = "ReadDir" /\ NamesADir(mfs, c.name)) =>
            /\ {c.entries[i].name : i \in DOMAIN c.entries} = ChildrenOf(mfs, c.name)
            /\ Len(c.entries) = Cardinality(ChildrenOf(mfs, c.name))
       /\ c.op = "WalkDir" => c.walked = DOMAIN mfs

\* C29 (as claimed): whatever the interleaving of the Open and Read calls of
\* two callers of one MemoryFileSystem, every fs.ReadFile of a registered file
\* returns the file's complete contents, from its first byte.
C29_ReadsComplete ==
    \A r \in Readers :
        (rd[r].op = "ReadFile" /\ rd[r].pc = "idle" /\ rd[r].kind = "file") =>
            rd[r].data = mfs[rd[r].name].contents

(***************************************************************************)
(* Properties of the classification (specification SpecClassify).          *)
(* "Classified" is the state after the classification loop of a load that  *)
(* collected its files and met no pre-processor error.                     *)
(***************************************************************************)
Classified == pc["p1"] = "content"

\* a text with a yield or a {{ template "content" }} written with left
UsesContentWith(left, text) ==
    \E i \in 1..Len(text) :
        text[i] \in {written(left, t) : t \in {"Y", "YT", "YA", "TC", "TCA"}}

\* the text with each yield written with left turned into the template
\* "content" directive of the same argument, written with left
YieldsRewrittenWith(left, text) ==
    [i \in 1..Len(text) |->
        IF text[i] \in {written(left, "Y"), written(left, "YT")} THEN written(left, "TC")
        ELSE IF text[i] = written(left, "YA") THEN written(left, "TCA")
        ELSE text[i]]

\* C23 (as claimed): after Delims(l, r) the classification follows l and r: a
\* file whose yield or template "content" directive is written with l and r
\* is classified as a Layout, and its yields are rewritten to the canonical
\* directive written with l and r.
C23_ClassifiesByDelims ==
    Classified =>
        \A f \in ld.got :
            UsesContentWith(cfg.left, NormalisedText(f)) =>
                LET n == trimDir(tmplNameOf(f), layoutDir)
                IN  /\ n \in DOMAIN ld.layoutTemplates
                    /\ ld.layoutTemplates[n] = YieldsRewrittenWith(cfg.left, NormalisedText(f))

\* how many times a text, read with the engine's delimiters, defines "content"
ContentDefinitions(text) ==
    Cardinality({i \in 1..Len(text) : lex(cfg.left, text)[i] = "DEFC"})

\* the collected files that the classification made content templates of
ContentFiles ==
    {f \in ld.got : FileUnit(cfg, f, trimSpace(RawText(f))).kind = "content"}

OnlyThroughFuncs(name) == TiersOf(name) = {"engine"}

\* C25 (as claimed): the layout pass parses the layout's own text with the
\* merged global, engine-level and layout-only functions: a Load that
\* collected a layout calling a function supplied only through Funcs, and at
\* least one content file, returns no error.
C25_LayoutParsedWithEngineFuncs ==
    (/\ LoadReturned
     /\ ld.got = PathOf(fsys)
     /\ "layouts/lf.html" \in ld.got
     /\ DOMAIN ld.contentTemplates # {}
     /\ OnlyThroughFuncs("f")) => ld.err = NoErr

(***************************************************************************)
(* Comments and the classification (specification SpecClassify).           *)
(***************************************************************************)
\* position i of text is inside a comment: from a <!-- to the first --> after it
InComment(text, i) ==
    \E a \in 1..i : \E b \in i..Len(text) :
        /\ a < b
        /\ text[a] = "CO" /\ text[b] = "CC"
        /\ \A k \in (a + 1)..(b - 1) : text[k] # "CC"

\* the tokens of text outside its comments, in order
RECURSIVE VisibleFrom(_, _)
VisibleFrom(text, i) ==
    IF i > Len(text) THEN <<>>
    ELSE (IF InComment(text, i) THEN <<>> ELSE <<text[i]>>) \o VisibleFrom(text, i + 1)

Visible(text) == VisibleFrom(text, 1)

\* every occurrence in text of a token of toks, and there is one, is in a comment
OnlyInComments(text, toks) ==
    /\ \E i \in 1..Len(text) : text[i] \in toks
    /\ \A i \in 1..Len(text) : text[i] \in toks => InComment(text, i)

Collected(f) == trimSpace(RawText(f))

\* C26: comments are removed before the classification and before the search
\* for a block definition.  After the classification loop a file whose only
\* yield or template "content" directive is inside a comment is a content
\* template, a content file whose only block definition is inside a comment is
\* wrapped in the implicit "content" definition, and every stored text is made
\* of the file's tokens outside its comments (a layout's with its yields
\* rewritten); after a successful Load no Templates entry holds a comment.
C26_CommentsRemovedFirst ==
    /\ Classified =>
          \A f \in ld.got :
              LET n == tmplNameOf(f)
                  l == trimDir(n, layoutDir)
              IN  /\ OnlyInComments(Collected(f), {"Y", "YT", "YA", "TC", "TCA"}) =>
                        /\ n \in DOMAIN ld.contentTemplates
                        /\ l \notin DOMAIN ld.layoutTemplates
                  /\ (/\ n \in DOMAIN ld.contentTemplates
                      /\ OnlyInComments(Collected(f), {written(cfg.left, "DEF"),
                                                       written(cfg.left, "DEFC")})) =>
                        ld.contentTemplates[n] =
                            <<written(cfg.left, "DEFC")>> \o Visible(Collected(f))
                                \o <<written(cfg.left, "END")>>
                  /\ n \in DOMAIN ld.contentTemplates =>
                        ld.contentTemplates[n] \in
                            {Visible(Collected(f)),
                             <<written(cfg.left, "DEFC")>> \o Visible(Collected(f))
                                 \o <<written(cfg.left, "END")>>}
                  /\ l \in DOMAIN ld.layoutTemplates =>
                        ld.layoutTemplates[l] = YieldsRewrittenWith("{{", Visible(Collected(f)))
    /\ (LoadReturned /\ ld.err = NoErr) =>
          \A n \in DOMAIN Templates :
              \A i \in 1..Len(Templates[n].contentText) :
                  ~InComment(Templates[n].contentText, i)

C26_Witness ==
    /\ LoadReturned /\ ld.err = NoErr
    /\ ld.got = {"c.html", "cdef.html"}
    /\ DOMAIN Templates = {"c", "cdef"}
    /\ Templates["cdef"].contentText = <<"DEFC", "cd", "END">>

(***************************************************************************)
(* Loads over a changing source (specification Spec).  ld.got is the files *)
(* of the source as the returned Load collected them; committed holds the  *)
(* registries of the successful Load before it.                            *)
(***************************************************************************)
\* C27: whatever Loads came before and whatever the source held then, after a
\* successful Load the keys of Templates are exactly the names of the content
\* files this Load collected and the keys of Layouts exactly the concatenations
\* of the names of a layout and a content file it collected: a key of an
\* earlier Load whose file is gone, or is no longer of that kind, is absent.
C27_NoStaleKeys ==
    LoadSucceeded =>
        /\ DOMAIN Templates = LoadedNames("content")
        /\ DOMAIN Layouts =
              {makeLayoutTemplateName(C, L) :
                  L \in LoadedNames("layout"), C \in LoadedNames("content")}
        /\ committed.ok =>
              /\ \A n \in DOMAIN committed.T \ LoadedNames("content") :
                    n \notin DOMAIN Templates
              /\ \A K \in DOMAIN committed.L :
                    (\A L \in LoadedNames("layout"), C \in LoadedNames("content") :
                        K # makeLayoutTemplateName(C, L)) => K \notin DOMAIN Layouts

\* a successful Load after a successful Load of a source that held more files
C27_Witness ==
    /\ LoadSucceeded
    /\ committed.ok
    /\ DOMAIN committed.T \ DOMAIN Templates # {}
    /\ DOMAIN committed.L \ DOMAIN Layouts # {}
    /\ Templates # EmptyMap

(***************************************************************************)
(* Properties of concurrent renders (specification SpecRenders).           *)
(***************************************************************************)
\* p is in a call of ExecuteTemplate or TemplateString after the step
Rendering(p) == call'[p].op \in {"ExecuteTemplate", "TemplateString"}

\* the step is a step of p: p's position, call or result changes
StepOf(p) == pc'[p] # pc[p] \/ call'[p] # call[p] \/ res'[p] # res[p]

\* what the lookup of p's call gives on the registries
OwnLookup(p) ==
    executeTemplate(Templates, Layouts, call[p].tmplName, effectiveLayout(cfg, call[p]))

\* a step of a render leaves both registries and the other caller alone, and a
\* render that ends, ends with what its own arguments find in the registries
RenderStepFrame ==
    \A p \in Procs :
        (StepOf(p) /\ Rendering(p)) =>
            /\ Templates' = Templates
            /\ Layouts' = Layouts
            /\ \A q \in Procs \ {p} : pc'[q] = pc[q] /\ call'[q] = call[q] /\ res'[q] = res[q]
            /\ (pc[p] = "exec" /\ pc'[p] = "idle") =>
                  /\ OwnLookup(p).err # NoErr =>
                        res'[p].err = OwnLookup(p).err /\ res'[p].out = <<>>
                  /\ OwnLookup(p).err = NoErr => res'[p].tmpl = OwnLookup(p).tmpl
                  /\ res'[p].err.kind = "ErrNotExist" =>
                        \/ res'[p].err = OwnLookup(p).err
                        \/ res'[p].err.name \notin DOMAIN Templates

\* C28: with auto-reload off, every step of ExecuteTemplate, of TemplateString
\* and of the partial builtin leaves Templates and Layouts as they are,
\* whether the lookup succeeds, returns ErrNotExist or the execution fails at
\* a partial; it changes nothing of the other caller's render, and an
\* ErrNotExist is returned for a name that the caller's own render looked up
\* and the registries do not hold.
C28_RendersKeepRegistries == [][RenderStepFrame]_vars

\* on a loaded engine p1 has been returned ErrNotExist for the name c while p2
\* is in the middle of an execution, after its first partial
C28_Witness ==
    /\ Loaded
    /\ pc["p1"] = "idle" /\ res["p1"].done /\ res["p1"].err = Err("ErrNotExist", "c")
    /\ pc["p2"] = "exec" /\ res["p2"].started /\ Len(res["p2"].partials) >= 1
    /\ call["p2"].tmplName = "index"

====
